---- MODULE Spec2Model ----
(***************************************************************************)
(* Model of the gateway core of Proxy-me (CLIProxyAPI fork):               *)
(*   - client-key permission resolution (sdk/cliproxy/auth),               *)
(*   - the reverse-proxy ban state (internal/runtime/executor),            *)
(*   - the Codex executor's proxied call with its direct retry,            *)
(*   - the proxy helpers: routing, URL rewriting, header injection,        *)
(*   - the breaker predicate and the Codex quota cooldown.                 *)
(* Strings are TLA+ strings; time is an integer count of seconds.          *)
(***************************************************************************)
EXTENDS Integers, Sequences, FiniteSets, TLC

VARIABLES
    auths,        \* Manager.auths: IDs of the registered credentials, in registration order
    authStatus,   \* Auth.Status of every catalogued credential
    apiKeyAuth,   \* Config.APIKeyAuth: client key -> list of credential references
    lastOp,       \* what the last Manager call observed and returned
    now,          \* time.Now(), in seconds
    bannedTill,   \* reverseProxyBanState.bannedTill: proxy ID -> expiry
    banCalls,     \* banReverseProxyTemporarily calls in flight: caller -> [id, until] or NoCall
    lastRead,     \* what the last isReverseProxyTemporarilyBanned call observed and returned
    cfg,          \* the configuration in force: what an executor is built with
    reqs,         \* Codex executor calls: request -> record
    lastCall,     \* what the last call of a proxy helper was given and returned
    codexCacheMap, \* the prompt-cache sessions: cache key -> [ID, Expire]
    cacheCalls,   \* cacheHelper calls: caller -> record
    uuids,        \* how many tokens uuid.New() has handed out
    issued,       \* the requests cacheHelper has built, with the instant of each
    stream        \* one stream of ExecuteStream: goroutine, channel, body, consumer, context

vars == <<auths, authStatus, apiKeyAuth, lastOp, now, bannedTill, banCalls, lastRead, cfg, reqs,
          lastCall, codexCacheMap, cacheCalls, uuids, issued, stream>>

permVars == <<auths, authStatus, apiKeyAuth, lastOp>>
banVars  == <<now, bannedTill, banCalls, lastRead>>
execVars == <<cfg, reqs>>
helpVars == <<lastCall>>
cacheVars == <<codexCacheMap, cacheCalls, uuids, issued>>
streamVars == <<stream>>

(***************************************************************************)
(* Bounds                                                                  *)
(***************************************************************************)
MaxRegistered == 2     \* credentials registered at the same time
MaxPeriods == 1        \* the clock runs over 0 .. MaxPeriods TTLs (plus offsets)

(***************************************************************************)
(* strings.TrimSpace over the strings the model uses                       *)
(***************************************************************************)
TrimSpace(s) ==
    CASE s = " client-1 " -> "client-1"
      [] s = " idx-b "    -> "idx-b"
      [] s = " deno-1 "   -> "deno-1"
      [] s = " deno-2 "   -> "deno-2"
      [] s = " worker-secret "  -> "worker-secret"
      [] s = " X-Worker-Token " -> "X-Worker-Token"
      [] s = " https://bridge.example/ " -> "https://bridge.example/"
      [] s = " Request Detail: 500 "     -> "Request Detail: 500"
      [] s = " 86400 "    -> "86400"
      [] s = " 120 "      -> "120"
      [] s = " codex-d.json " -> "codex-d.json"
      [] s = " auth-a "   -> "auth-a"
      [] s = " k-old "    -> "k-old"
      [] s = " 1970-01-01T00:00:01Z " -> "1970-01-01T00:00:01Z"
      [] s = "  "         -> ""
      [] s = " "          -> ""
      [] OTHER            -> s

(***************************************************************************)
(* Credentials                                                             *)
(***************************************************************************)
StatusActive   == "active"
StatusError    == "error"
StatusDisabled == "disabled"
Statuses == {StatusActive, StatusError, StatusDisabled}

AuthIDs == {"auth-a", "auth-b", "auth-c"}

\* The credentials that can be registered: identity fields are fixed per ID.
AuthOf(id) ==
    CASE id = "auth-a" -> [ID |-> "auth-a", Provider |-> "gemini", FileName |-> "auth-a.json",
                           Index |-> "", api_key |-> ""]
      [] id = "auth-b" -> [ID |-> "auth-b", Provider |-> "gemini", FileName |-> "",
                           Index |-> " idx-b ", api_key |-> ""]
      [] id = "auth-c" -> [ID |-> "auth-c", Provider |-> "codex", FileName |-> "",
                           Index |-> "", api_key |-> "sk-c"]
      [] id = "auth-d" -> [ID |-> "auth-d", Provider |-> "codex", FileName |-> "codex-d.json",
                           Index |-> "", api_key |-> ""]

Providers == {"gemini", "codex"}

\* A stable short token of the seed: a hash, taken to be collision-free.
stableAuthIndex(seed) == "h(" \o seed \o ")"

\* Mutant: the api_key seed is preferred to the file seed.
authIndexForMatch_KeyBeforeFile(auth) ==
    IF TrimSpace(auth.Index) # "" THEN TrimSpace(auth.Index)
    ELSE IF TrimSpace(auth.api_key) # ""
      THEN stableAuthIndex("api_key:" \o TrimSpace(auth.api_key))
    ELSE IF TrimSpace(auth.FileName) # ""
      THEN stableAuthIndex("file:" \o TrimSpace(auth.FileName))
    ELSE IF TrimSpace(auth.ID) # "" THEN stableAuthIndex("id:" \o TrimSpace(auth.ID))
    ELSE ""

authIndexForMatch(auth) ==
    IF TrimSpace(auth.Index) # "" THEN TrimSpace(auth.Index)
    ELSE LET fileSeed == IF TrimSpace(auth.FileName) # ""
                           THEN "file:" \o TrimSpace(auth.FileName)
                           ELSE IF TrimSpace(auth.api_key) # ""
                                  THEN "api_key:" \o TrimSpace(auth.api_key)
                                  ELSE ""
             seed == IF fileSeed # "" THEN fileSeed
                     ELSE IF TrimSpace(auth.ID) # "" THEN "id:" \o TrimSpace(auth.ID)
                     ELSE ""
         IN IF seed = "" THEN "" ELSE stableAuthIndex(seed)

\* clientAPIKeyFromOptions: the client key carried by the request's metadata, trimmed.
clientAPIKeyFromOptions(raw) == TrimSpace(raw)

(***************************************************************************)
(* Access resolver (api_key_permissions.go)                                *)
(***************************************************************************)
NilResult == [allowed |-> {}, isNil |-> TRUE, restricted |-> FALSE]

SeqRange(s) == {s[i] : i \in 1..Len(s)}

\* Mutant: a key missing from the mapping is treated as listed with no references.
allowedAuthRefsForClientKey_MissingKeyRestricted(cfgAuth, clientKey) ==
    LET key == TrimSpace(clientKey) IN
    IF key = "" THEN NilResult
    ELSE IF DOMAIN cfgAuth = {} THEN NilResult
    ELSE IF key \notin DOMAIN cfgAuth THEN [allowed |-> {}, isNil |-> FALSE, restricted |-> TRUE]
    ELSE [allowed |-> {TrimSpace(r) : r \in SeqRange(cfgAuth[key])} \ {""},
          isNil |-> FALSE, restricted |-> TRUE]

\* Mutant: an empty key is looked up like any other.
allowedAuthRefsForClientKey_LooksUpBlank(cfgAuth, clientKey) ==
    LET key == TrimSpace(clientKey) IN
    IF DOMAIN cfgAuth = {} THEN NilResult
    ELSE IF key \notin DOMAIN cfgAuth THEN NilResult
    ELSE [allowed |-> {TrimSpace(r) : r \in SeqRange(cfgAuth[key])} \ {""},
          isNil |-> FALSE, restricted |-> TRUE]

\* (allowed refs, restricted): the key's references, trimmed, blanks dropped.
\* Mutant: a key whose references are all blank counts as not listed.
allowedAuthRefsForClientKey_BlankRefsUnlisted(cfgAuth, clientKey) ==
    LET key == TrimSpace(clientKey) IN
    IF key = "" THEN NilResult
    ELSE IF DOMAIN cfgAuth = {} THEN NilResult
    ELSE IF key \notin DOMAIN cfgAuth THEN NilResult
    ELSE IF cfgAuth[key] # <<>> /\ {TrimSpace(r) : r \in SeqRange(cfgAuth[key])} \ {""} = {}
      THEN NilResult
    ELSE [allowed |-> {TrimSpace(r) : r \in SeqRange(cfgAuth[key])} \ {""},
          isNil |-> FALSE, restricted |-> TRUE]

allowedAuthRefsForClientKey(cfgAuth, clientKey) ==
    LET key == TrimSpace(clientKey) IN
    IF key = "" THEN NilResult
    ELSE IF DOMAIN cfgAuth = {} THEN NilResult
    ELSE IF key \notin DOMAIN cfgAuth THEN NilResult
    ELSE [allowed |-> {TrimSpace(r) : r \in SeqRange(cfgAuth[key])} \ {""},
          isNil |-> FALSE, restricted |-> TRUE]

\* Mutant: a reference is compared with the credential's ID only.
authMatchesAllowedRefs_IDOnly(auth, allowed) ==
    IF allowed = {} THEN FALSE
    ELSE TrimSpace(auth.ID) # "" /\ TrimSpace(auth.ID) \in allowed

\* Mutant: any credential matches a non-empty reference set.
authMatchesAllowedRefs_Any(auth, allowed) ==
    allowed # {}

authMatchesAllowedRefs(auth, allowed) ==
    IF allowed = {} THEN FALSE
    ELSE \/ TrimSpace(auth.ID) # "" /\ TrimSpace(auth.ID) \in allowed
         \/ authIndexForMatch(auth) # "" /\ authIndexForMatch(auth) \in allowed
         \/ TrimSpace(auth.FileName) # "" /\ TrimSpace(auth.FileName) \in allowed

\* Mutant: an empty reference list falls back to unrestricted.
AllowedAuthIDsForClientKey_EmptyUnrestricted(cfgAuth, registered, clientKey) ==
    LET r == allowedAuthRefsForClientKey(cfgAuth, clientKey) IN
    IF ~r.restricted THEN NilResult
    ELSE IF r.allowed = {} THEN NilResult
    ELSE [allowed |-> {id \in SeqRange(registered) :
                          authMatchesAllowedRefs(AuthOf(id), r.allowed)},
          isNil |-> FALSE, restricted |-> TRUE]

\* Mutant: references that match no credential fall back to unrestricted.
AllowedAuthIDsForClientKey_NoMatchUnrestricted(cfgAuth, registered, clientKey) ==
    LET r == allowedAuthRefsForClientKey(cfgAuth, clientKey)
        out == {id \in SeqRange(registered) : authMatchesAllowedRefs(AuthOf(id), r.allowed)}
    IN
    IF ~r.restricted THEN NilResult
    ELSE IF r.allowed = {} THEN [allowed |-> {}, isNil |-> FALSE, restricted |-> TRUE]
    ELSE IF out = {} THEN NilResult
    ELSE [allowed |-> out, isNil |-> FALSE, restricted |-> TRUE]

\* (allowed IDs, restricted) for a client key, against the registered credentials.
AllowedAuthIDsForClientKey(cfgAuth, registered, clientKey) ==
    LET r == allowedAuthRefsForClientKey(cfgAuth, clientKey) IN
    IF ~r.restricted THEN NilResult
    ELSE IF r.allowed = {} THEN [allowed |-> {}, isNil |-> FALSE, restricted |-> TRUE]
    ELSE [allowed |-> {id \in SeqRange(registered) :
                          authMatchesAllowedRefs(AuthOf(id), r.allowed)},
          isNil |-> FALSE, restricted |-> TRUE]

(***************************************************************************)
(* The configuration's sanitizer of the api-key-auth mapping               *)
(***************************************************************************)
RECURSIVE normalizeRefs(_, _)
\* the references trimmed, the blank ones dropped, each kept once, in order
normalizeRefs(refs, out) ==
    IF refs = <<>> THEN out
    ELSE LET ref == TrimSpace(Head(refs)) IN
         IF ref = "" \/ ref \in SeqRange(out)
         THEN normalizeRefs(Tail(refs), out)
         ELSE normalizeRefs(Tail(refs), Append(out, ref))

NormalizeAPIKeyAuthForKnownKeys_KeepsUnknown(in, apiKeys) ==
    [k \in DOMAIN in |-> normalizeRefs(in[k], <<>>)]

NormalizeAPIKeyAuthForKnownKeys(in, apiKeys) ==
    [k \in {key \in DOMAIN in : key \in SeqRange(apiKeys)} |-> normalizeRefs(in[k], <<>>)]

(***************************************************************************)
(* Credential manager                                                      *)
(***************************************************************************)
StatusOK == 200
StatusForbidden == 403
StatusNoAuth == 500

CfgKeys == {"client-1", "client-2"}
KeyInputs == {"client-1", " client-1 ", "client-2", ""}

\* The reference lists a configuration gives a client key.
RefLists(key) ==
    IF key = "client-1"
      THEN { <<>>, <<"auth-a">>, <<"idx-b">>, <<"auth-a.json">>, <<"h(api_key:sk-c)">>,
             <<"h(file:auth-a.json)">>, <<"ghost">>, <<"  ">>, <<"", "  ">>,
             <<" idx-b ", "auth-a">> }
      ELSE { <<>>, <<"auth-a.json">> }

NoOp == [op |-> "none"]

\* Manager.Register: a new credential joins the pool with the status it carries.
Register(id, st) ==
    /\ id \notin SeqRange(auths)
    /\ Len(auths) < MaxRegistered
    /\ auths' = Append(auths, id)
    /\ authStatus' = [authStatus EXCEPT ![id] = st]
    /\ lastOp' = NoOp
    /\ UNCHANGED <<apiKeyAuth, banVars, execVars, helpVars, cacheVars, streamVars>>

\* A health signal or refresh changes a registered credential's status.
MarkStatus(id, st) ==
    /\ id \in SeqRange(auths)
    /\ authStatus[id] # st
    /\ authStatus' = [authStatus EXCEPT ![id] = st]
    /\ lastOp' = NoOp
    /\ UNCHANGED <<auths, apiKeyAuth, banVars, execVars, helpVars, cacheVars, streamVars>>

\* Manager.SetConfig with a configuration whose api-key-auth maps key to refs.
SetConfigKey(key, refs) ==
    /\ IF key \in DOMAIN apiKeyAuth THEN apiKeyAuth[key] # refs ELSE TRUE
    /\ apiKeyAuth' = [k \in DOMAIN apiKeyAuth \cup {key} |->
                         IF k = key THEN refs ELSE apiKeyAuth[k]]
    /\ lastOp' = NoOp
    /\ UNCHANGED <<auths, authStatus, banVars, execVars, helpVars, cacheVars, streamVars>>

\* Manager.SetConfig with a configuration whose api-key-auth no longer lists key.
SetConfigDropKey(key) ==
    /\ key \in DOMAIN apiKeyAuth
    /\ apiKeyAuth' = [k \in DOMAIN apiKeyAuth \ {key} |-> apiKeyAuth[k]]
    /\ lastOp' = NoOp
    /\ UNCHANGED <<auths, authStatus, banVars, execVars, helpVars, cacheVars, streamVars>>

\* The candidates of a request: Active credentials of the provider, in
\* registration order, restricted to the allowed set when restriction applies.
Candidates(registered, status, provider, res) ==
    SelectSeq(registered,
              LAMBDA id : /\ AuthOf(id).Provider = provider
                          /\ status[id] = StatusActive
                          /\ (res.restricted => id \in res.allowed))

\* FillFirstSelector: the first candidate.
Pick(cands) == Head(cands)

\* Manager.Execute for a request carrying rawKey for one provider.
ManagerExecute(rawKey, provider) ==
    LET key   == clientAPIKeyFromOptions(rawKey)
        res   == AllowedAuthIDsForClientKey(apiKeyAuth, auths, key)
        cands == Candidates(auths, authStatus, provider, res)
        base  == [op |-> "Execute", key |-> rawKey, provider |-> provider,
                  allowed |-> res.allowed, isNil |-> res.isNil,
                  restricted |-> res.restricted]
    IN
    /\ lastOp' =
         IF res.restricted /\ res.allowed = {}
           THEN base @@ [status |-> StatusForbidden, usedAuth |-> "", invoked |-> FALSE]
         ELSE IF cands = <<>>
           THEN base @@ [status |-> IF res.restricted THEN StatusForbidden ELSE StatusNoAuth,
                         usedAuth |-> "", invoked |-> FALSE]
         ELSE base @@ [status |-> StatusOK, usedAuth |-> Pick(cands), invoked |-> TRUE]
    /\ UNCHANGED <<auths, authStatus, apiKeyAuth, banVars, execVars, helpVars, cacheVars, streamVars>>

\* A direct call of Manager.AllowedAuthIDsForClientKey (e.g. by the usage endpoint).
ResolveAllowed(rawKey) ==
    LET res == AllowedAuthIDsForClientKey(apiKeyAuth, auths, rawKey) IN
    /\ lastOp' = [op |-> "Resolve", key |-> rawKey, provider |-> "",
                  allowed |-> res.allowed, isNil |-> res.isNil,
                  restricted |-> res.restricted,
                  status |-> 0, usedAuth |-> "", invoked |-> FALSE]
    /\ UNCHANGED <<auths, authStatus, apiKeyAuth, banVars, execVars, helpVars, cacheVars, streamVars>>

\* The references under which a credential can be listed in api-key-auth.
AuthRefs(id) ==
    {TrimSpace(AuthOf(id).ID), authIndexForMatch(AuthOf(id)), TrimSpace(AuthOf(id).FileName)} \ {""}

\* Mutant: a key left without references is deleted from the mapping.
cleanupAuthMappings_DropsEmptyKeys(cfgAuth, targets) ==
    LET cleaned == [k \in DOMAIN cfgAuth |->
                       SelectSeq(cfgAuth[k], LAMBDA r : TrimSpace(r) \notin targets)]
    IN [k \in {x \in DOMAIN cfgAuth : cleaned[x] # <<>>} |-> cleaned[k]]

\* cleanupAuthMappings on api-key-auth: every key keeps its entry, without the
\* references of the removed credential.
cleanupAuthMappings(cfgAuth, targets) ==
    [k \in DOMAIN cfgAuth |->
        SelectSeq(cfgAuth[k], LAMBDA r : TrimSpace(r) \notin targets)]

\* The management handler removes a credential file and cleans the mappings.
CleanupAuthMappings(id) ==
    /\ \E k \in DOMAIN apiKeyAuth : \E r \in SeqRange(apiKeyAuth[k]) : TrimSpace(r) \in AuthRefs(id)
    /\ apiKeyAuth' = cleanupAuthMappings(apiKeyAuth, AuthRefs(id))
    /\ lastOp' = [op |-> "Cleanup", targets |-> AuthRefs(id), before |-> apiKeyAuth]
    /\ UNCHANGED <<auths, authStatus, banVars, execVars, helpVars, cacheVars, streamVars>>

(***************************************************************************)
(* Reverse-proxy ban state (circuit breaker)                               *)
(***************************************************************************)
reverseProxyBanTTL == 300

\* The instants at which the clock is observed: around each multiple of the TTL.
Instants == {k * reverseProxyBanTTL + o : k \in 0..MaxPeriods, o \in {0, 1}}

ProxyIDInputs == {"deno-1", " deno-1 ", "deno-2", " "}
RouteBanIDs == {"deno-1", " deno-1 "}

Callers == {"c1", "c2"}
NoCall == [op |-> "idle"]
NoRead == [id |-> "", at |-> 0, banned |-> FALSE, had |-> FALSE, until |-> 0, removed |-> FALSE]

\* time passes
Tick(t) ==
    /\ t > now
    /\ now' = t
    /\ UNCHANGED <<permVars, bannedTill, banCalls, lastRead, execVars, helpVars, cacheVars, streamVars>>

\* Mutant: the new expiry overwrites the stored one.
banStore_Overwrite(bt, id, until) ==
    [p \in DOMAIN bt \cup {id} |-> IF p = id THEN until ELSE bt[p]]

\* The critical section of banReverseProxyTemporarily: keep the later expiry.
banStore(bt, id, until) ==
    LET kept == IF id \in DOMAIN bt /\ bt[id] > until THEN bt[id] ELSE until
    IN [p \in DOMAIN bt \cup {id} |-> IF p = id THEN kept ELSE bt[p]]

\* Mutant: an expired entry is reported unbanned but stays in the map.
banLookup_NoEviction(bt, id, at) ==
    IF id \notin DOMAIN bt THEN [banned |-> FALSE, bt |-> bt]
    ELSE IF at > bt[id] THEN [banned |-> FALSE, bt |-> bt]
    ELSE [banned |-> TRUE, bt |-> bt]

\* The critical section of isReverseProxyTemporarilyBanned: an entry that has
\* expired at time at is deleted. Returns the answer and the map.
banLookup(bt, id, at) ==
    IF id \notin DOMAIN bt THEN [banned |-> FALSE, bt |-> bt]
    ELSE IF at > bt[id] THEN [banned |-> FALSE, bt |-> [p \in DOMAIN bt \ {id} |-> bt[p]]]
    ELSE [banned |-> TRUE, bt |-> bt]

\* banReverseProxyTemporarily, up to the lock: the ID is trimmed, the expiry computed.
BanBegin(c, rawID) ==
    /\ banCalls[c] = NoCall
    /\ TrimSpace(rawID) # ""
    /\ banCalls' = [banCalls EXCEPT ![c] =
                       [op |-> "ban", id |-> TrimSpace(rawID), val |-> now + reverseProxyBanTTL]]
    /\ UNCHANGED <<permVars, now, bannedTill, lastRead, execVars, helpVars, cacheVars, streamVars>>

\* banReverseProxyTemporarily, under the lock.
BanCommit(c) ==
    /\ banCalls[c].op = "ban"
    /\ bannedTill' = banStore(bannedTill, banCalls[c].id, banCalls[c].val)
    /\ banCalls' = [banCalls EXCEPT ![c] = NoCall]
    /\ UNCHANGED <<permVars, now, lastRead, execVars, helpVars, cacheVars, streamVars>>

\* isReverseProxyTemporarilyBanned, up to the lock: the ID is trimmed, the clock read.
ReadBegin(c, rawID) ==
    /\ banCalls[c] = NoCall
    /\ TrimSpace(rawID) # ""
    /\ banCalls' = [banCalls EXCEPT ![c] = [op |-> "read", id |-> TrimSpace(rawID), val |-> now]]
    /\ UNCHANGED <<permVars, now, bannedTill, lastRead, execVars, helpVars, cacheVars, streamVars>>

\* isReverseProxyTemporarilyBanned, under the lock.
ReadCommit(c) ==
    /\ banCalls[c].op = "read"
    /\ LET r == banLookup(bannedTill, banCalls[c].id, banCalls[c].val) IN
         /\ bannedTill' = r.bt
         /\ lastRead' = [id |-> banCalls[c].id, at |-> banCalls[c].val,
                         banned |-> r.banned,
                         had |-> banCalls[c].id \in DOMAIN bannedTill,
                         until |-> IF banCalls[c].id \in DOMAIN bannedTill
                                     THEN bannedTill[banCalls[c].id] ELSE 0,
                         removed |-> /\ banCalls[c].id \in DOMAIN bannedTill
                                     /\ banCalls[c].id \notin DOMAIN r.bt]
    /\ banCalls' = [banCalls EXCEPT ![c] = NoCall]
    /\ UNCHANGED <<permVars, now, execVars, helpVars, cacheVars, streamVars>>

\* isReverseProxyTemporarilyBanned with a blank ID: false, no state touched.
ReadBlank(c, rawID) ==
    /\ banCalls[c] = NoCall
    /\ TrimSpace(rawID) = ""
    /\ lastRead' = [NoRead EXCEPT !.at = now]
    /\ UNCHANGED <<permVars, now, bannedTill, banCalls, execVars, helpVars, cacheVars, streamVars>>

(***************************************************************************)
(* Reverse-proxy routing (proxy helpers)                                   *)
(***************************************************************************)
NoConfig == [ProxyRouting |-> <<>>, ProxyRoutingAuth |-> <<>>, ReverseProxies |-> <<>>,
             ReverseProxyWorkerURL |-> "", APIKeyAuth |-> <<>>]

\* strings.TrimSuffix(s, "/") over the base URLs the model uses
TrimSlash(s) ==
    CASE s = "https://deno-1.example/" -> "https://deno-1.example"
      [] s = "https://bridge.example/" -> "https://bridge.example"
      [] OTHER -> s

\* url.Parse(s).Hostname() over the base URLs the model uses
Hostname(s) ==
    CASE s = "https://deno-1.example/" -> "deno-1.example"
      [] s = "https://deno-2.example"  -> "deno-2.example"
      [] s = "https://bridge.example"  -> "bridge.example"
      [] s = "https://bridge.example/" -> "bridge.example"
      [] s = "https://daily-cloudcode-pa.googleapis.com" -> "daily-cloudcode-pa.googleapis.com"
      [] s = "https://daily-cloudcode-pa.sandbox.googleapis.com" ->
             "daily-cloudcode-pa.sandbox.googleapis.com"
      [] s = "https://generativelanguage.googleapis.com" -> "generativelanguage.googleapis.com"
      [] s = "https://BRIDGE.example"  -> "BRIDGE.example"
      [] s = "https://chatgpt.com"     -> "chatgpt.com"
      [] OTHER -> ""

\* strings.ToLower over the host names the model uses
LowerHost(h) == IF h = "BRIDGE.example" THEN "bridge.example" ELSE h

\* A URL is kept in parts: scheme and authority, path, raw query.
URLString(u) == u.base \o u.path \o (IF u.query = "" THEN "" ELSE "?" \o u.query)

resolveProxyIDForProvider(c, provider) ==
    IF provider \in DOMAIN c.ProxyRouting THEN c.ProxyRouting[provider] ELSE ""

\* Auth.EnsureIndex: the credential's Index, derived when it has none.
EnsureIndex(auth) == authIndexForMatch(auth)

NilAuth == "nil"

RoutingAuthAt(c, ref) ==
    IF ref \in DOMAIN c.ProxyRoutingAuth THEN TrimSpace(c.ProxyRoutingAuth[ref]) ELSE ""

resolveProxyIDForAuth(c, authID) ==
    IF authID = NilAuth \/ DOMAIN c.ProxyRoutingAuth = {} THEN ""
    ELSE LET a == AuthOf(authID)
             byID   == IF TrimSpace(a.ID) # "" THEN RoutingAuthAt(c, TrimSpace(a.ID)) ELSE ""
             byIdx  == IF TrimSpace(EnsureIndex(a)) # ""
                         THEN RoutingAuthAt(c, TrimSpace(EnsureIndex(a))) ELSE ""
             byName == IF TrimSpace(a.FileName) # ""
                         THEN RoutingAuthAt(c, TrimSpace(a.FileName)) ELSE ""
         IN IF byID # "" THEN byID ELSE IF byIdx # "" THEN byIdx ELSE byName

\* The first enabled proxy with this ID, or NoProxy.
NoProxy == [ID |-> "", BaseURL |-> "", Enabled |-> FALSE, Headers |-> <<>>]

findReverseProxyByID(c, proxyID) ==
    LET hits == SelectSeq(c.ReverseProxies, LAMBDA p : p.ID = proxyID /\ p.Enabled)
    IN IF proxyID = "" \/ hits = <<>> THEN NoProxy ELSE Head(hits)

\* The bridge URL, or NoURL when no bridge applies.
NoURL == [base |-> "", path |-> "", query |-> ""]

\* Mutant: the bridge is used even for a proxy on the bridge's own host.
buildReverseProxyWorkerURL_NoRecursionGuard(c, proxyBaseURL, prefix, path, rawQuery) ==
    LET workerBase == TrimSpace(c.ReverseProxyWorkerURL)
        upstreamHost == Hostname(TrimSpace(proxyBaseURL))
        normalizedPath == IF path = "" THEN "/" ELSE path
        basePath == IF normalizedPath = "/" THEN prefix ELSE prefix \o normalizedPath
    IN
    IF workerBase = "" THEN NoURL
    ELSE IF Hostname(workerBase) = "" THEN NoURL
    ELSE IF upstreamHost = "" THEN NoURL
    ELSE [base |-> TrimSlash(workerBase), path |-> basePath \o "/" \o upstreamHost,
          query |-> rawQuery]

buildReverseProxyWorkerURL(c, proxyBaseURL, prefix, path, rawQuery) ==
    LET workerBase == TrimSpace(c.ReverseProxyWorkerURL)
        upstreamHost == Hostname(TrimSpace(proxyBaseURL))
        normalizedPath == IF path = "" THEN "/" ELSE path
        basePath == IF normalizedPath = "/" THEN prefix ELSE prefix \o normalizedPath
    IN
    IF workerBase = "" THEN NoURL
    ELSE IF Hostname(workerBase) = "" THEN NoURL
    ELSE IF upstreamHost = "" THEN NoURL
    ELSE IF LowerHost(Hostname(workerBase)) = LowerHost(upstreamHost) THEN NoURL
    ELSE [base |-> TrimSlash(workerBase), path |-> basePath \o "/" \o upstreamHost,
          query |-> rawQuery]

ProviderPrefix(provider, host) ==
    IF provider = "antigravity"
      THEN CASE host = "daily-cloudcode-pa.sandbox.googleapis.com" -> "/antigravity-sandbox"
             [] host = "daily-cloudcode-pa.googleapis.com" -> "/antigravity-daily"
             [] host = "cloudcode-pa.googleapis.com" -> "/antigravity-cloudcode"
             [] OTHER -> "/antigravity-sandbox"
    ELSE IF provider = "codex" THEN "/codex"
    ELSE "/" \o provider

\* Mutant: the query string is left out of the rewritten URL.
resolveReverseProxyURLWithID_DropsQuery(c, proxyID, provider, originalURL) ==
    LET proxyConfig == findReverseProxyByID(c, proxyID)
        prefix == ProviderPrefix(provider, Hostname(originalURL.base))
        newPath == IF originalURL.path = "" THEN "/" ELSE originalURL.path
        workerURL == buildReverseProxyWorkerURL(c, proxyConfig.BaseURL, prefix, newPath, "")
    IN
    IF c.ReverseProxies = <<>> \/ proxyID = "" THEN originalURL
    ELSE IF proxyConfig = NoProxy THEN originalURL
    ELSE IF workerURL # NoURL THEN workerURL
    ELSE [base |-> TrimSlash(proxyConfig.BaseURL), path |-> prefix \o newPath, query |-> ""]

resolveReverseProxyURLWithID(c, proxyID, provider, originalURL) ==
    LET proxyConfig == findReverseProxyByID(c, proxyID)
        prefix == ProviderPrefix(provider, Hostname(originalURL.base))
        newPath == IF originalURL.path = "" THEN "/" ELSE originalURL.path
        workerURL == buildReverseProxyWorkerURL(c, proxyConfig.BaseURL, prefix, newPath,
                                                originalURL.query)
    IN
    IF c.ReverseProxies = <<>> \/ proxyID = "" THEN originalURL
    ELSE IF proxyConfig = NoProxy THEN originalURL
    ELSE IF workerURL # NoURL THEN workerURL
    ELSE [base |-> TrimSlash(proxyConfig.BaseURL), path |-> prefix \o newPath,
          query |-> originalURL.query]

\* Mutant: the ban check is skipped.
resolveReverseProxyRouteWithID_IgnoresBan(c, proxyID, provider, originalURL, banned) ==
    LET id == TrimSpace(proxyID)
        url == resolveReverseProxyURLWithID(c, id, provider, originalURL)
    IN
    IF id = "" THEN [URL |-> originalURL, ProxyID |-> id, Proxied |-> FALSE]
    ELSE [URL |-> url, ProxyID |-> id, Proxied |-> url # originalURL]

\* resolveReverseProxyRouteWithID, given the answer of the ban check
resolveReverseProxyRouteWithID(c, proxyID, provider, originalURL, banned) ==
    LET id == TrimSpace(proxyID)
        url == resolveReverseProxyURLWithID(c, id, provider, originalURL)
    IN
    IF id = "" THEN [URL |-> originalURL, ProxyID |-> id, Proxied |-> FALSE]
    ELSE IF banned THEN [URL |-> originalURL, ProxyID |-> id, Proxied |-> FALSE]
    ELSE [URL |-> url, ProxyID |-> id, Proxied |-> url # originalURL]

\* Mutant: the provider's mapping is looked up first.
RouteProxyID_ProviderFirst(c, authID, provider) ==
    IF resolveProxyIDForProvider(c, provider) # ""
      THEN resolveProxyIDForProvider(c, provider)
      ELSE resolveProxyIDForAuth(c, authID)

\* Mutant: a credential-level proxy that is not an enabled proxy of the list
\* gives way to the provider-level one.
RouteProxyID_FallsBack(c, authID, provider) ==
    IF resolveProxyIDForAuth(c, authID) # ""
       /\ findReverseProxyByID(c, TrimSpace(resolveProxyIDForAuth(c, authID))) # NoProxy
      THEN resolveProxyIDForAuth(c, authID)
      ELSE resolveProxyIDForProvider(c, provider)

\* The proxy ID a call resolves: the credential's mapping first, then the provider's.
RouteProxyID(c, authID, provider) ==
    IF resolveProxyIDForAuth(c, authID) # ""
      THEN resolveProxyIDForAuth(c, authID)
      ELSE resolveProxyIDForProvider(c, provider)

\* isReverseProxyTemporarilyBanned, its clock having been read at t: (answer, map).
BanCheckAt(rawID, t) ==
    IF TrimSpace(rawID) = "" THEN [banned |-> FALSE, bt |-> bannedTill]
    ELSE banLookup(bannedTill, TrimSpace(rawID), t)

\* isReverseProxyTemporarilyBanned called at the current time: (answer, map).
BanCheck(rawID) == BanCheckAt(rawID, now)

\* http.Header.Get
HeaderGet(hdrs, k) == IF k \in DOMAIN hdrs THEN hdrs[k] ELSE ""

\* textproto.CanonicalMIMEHeaderKey over the header names the model uses
CanonicalKey(k) ==
    CASE k = "x-worker-token" -> "X-Worker-Token"
      [] k = "x-empty"        -> "X-Empty"
      [] OTHER -> k

\* Mutant: a configured header replaces the value the request has.
InjectHeaders_Overwrite(hdrs, configured) ==
    LET usable == {k \in DOMAIN configured :
                      TrimSpace(k) # "" /\ TrimSpace(configured[k]) # ""}
    IN [x \in DOMAIN hdrs \cup {CanonicalKey(TrimSpace(k)) : k \in usable} |->
           IF \E k \in usable : CanonicalKey(TrimSpace(k)) = x
             THEN TrimSpace(configured[CHOOSE k \in usable : CanonicalKey(TrimSpace(k)) = x])
             ELSE hdrs[x]]

\* The headers of the proxy are copied, never over a header the request has.
InjectHeaders(hdrs, configured) ==
    LET usable == {k \in DOMAIN configured :
                      /\ TrimSpace(k) # "" /\ TrimSpace(configured[k]) # ""
                      /\ HeaderGet(hdrs, CanonicalKey(TrimSpace(k))) = ""}
    IN [x \in DOMAIN hdrs \cup {CanonicalKey(TrimSpace(k)) : k \in usable} |->
           IF \E k \in usable : CanonicalKey(TrimSpace(k)) = x
             THEN TrimSpace(configured[CHOOSE k \in usable : CanonicalKey(TrimSpace(k)) = x])
             ELSE hdrs[x]]

\* applyReverseProxyHeaders, given the answer of the ban check
applyReverseProxyHeaders(hdrs, c, authID, provider, banned) ==
    LET proxyID == RouteProxyID(c, authID, provider)
        proxyConfig == findReverseProxyByID(c, proxyID)
    IN
    IF proxyID = "" THEN hdrs
    ELSE IF banned THEN hdrs
    ELSE IF proxyConfig = NoProxy \/ DOMAIN proxyConfig.Headers = {} THEN hdrs
    ELSE InjectHeaders(hdrs, proxyConfig.Headers)

\* The ban check made by applyReverseProxyHeaders (none for an empty proxy ID).
HeaderBanCheckAt(c, authID, provider, t) ==
    IF RouteProxyID(c, authID, provider) = ""
      THEN [banned |-> FALSE, bt |-> bannedTill]
      ELSE BanCheckAt(RouteProxyID(c, authID, provider), t)

HeaderBanCheck(c, authID, provider) == HeaderBanCheckAt(c, authID, provider, now)

shouldBanStatuses == {404, 502, 503, 504, 520, 521, 522, 523, 524}

\* The markers of a proxy failure. The first stands for the four characters
\* U+8BF7 U+6C42 U+8BE6 U+60C5 of the source.
proxyFailureMarkers ==
    {"U+8BF7 U+6C42 U+8BE6 U+60C5", "request detail", "status 404", "\"status\":404",
     "/v1/v1/messages"}

\* strings.ToLower over the bodies the model uses
ToLower(s) ==
    CASE s = "Request Detail: 500"         -> "request detail: 500"
      [] s = "STATUS 404"                  -> "status 404"
      [] s = "POST /v1/v1/messages failed" -> "post /v1/v1/messages failed"
      [] s = "Invalid Model"               -> "invalid model"
      [] OTHER -> s

\* strings.Contains(msg, p) for the markers p, over the lowered bodies the model uses
Contains(msg, p) ==
    CASE msg = "status 404"                  -> p = "status 404"
      [] msg = "upstream status 404"         -> p = "status 404"
      [] msg = "request detail: 500"         -> p = "request detail"
      [] msg = "U+8BF7 U+6C42 U+8BE6 U+60C5" -> p = "U+8BF7 U+6C42 U+8BE6 U+60C5"
      [] msg = "post /v1/v1/messages failed" -> p = "/v1/v1/messages"
      [] msg = "{\"status\":404}"            -> p = "\"status\":404"
      [] OTHER -> FALSE

\* The proxy-failure markers found in strings.ToLower(strings.TrimSpace(body)).
MarkersIn(body) ==
    {p \in proxyFailureMarkers : Contains(ToLower(TrimSpace(body)), p)}

\* Mutant: only the status code is looked at.
shouldBanReverseProxyOnError_StatusOnly(statusCode, errMsg) ==
    statusCode \in shouldBanStatuses

shouldBanReverseProxyOnError(statusCode, errMsg) ==
    \/ statusCode \in shouldBanStatuses
    \/ ToLower(TrimSpace(errMsg)) # "" /\ MarkersIn(errMsg) # {}

(***************************************************************************)
(* Codex quota cooldown: codexQuotaRecoverAt                               *)
(***************************************************************************)
\* A JSON value as gjson gives it: absent, a number, or a string.
NoValue == [exists |-> FALSE, t |-> "null", n |-> 0, s |-> ""]
Num(n) == [exists |-> TRUE, t |-> "num", n |-> n, s |-> ""]
Str(s) == [exists |-> TRUE, t |-> "str", n |-> 0, s |-> s]

\* strconv.ParseFloat over the strings the model uses
ParseFloat(s) ==
    CASE s = "86400" -> [ok |-> TRUE, val |-> 86400]
      [] s = "100"   -> [ok |-> TRUE, val |-> 100]
      [] OTHER       -> [ok |-> FALSE, val |-> 0]

gjsonToFloat(v) ==
    IF ~v.exists THEN [ok |-> FALSE, val |-> 0]
    ELSE IF v.t = "num" THEN [ok |-> TRUE, val |-> v.n]
    ELSE IF TrimSpace(v.s) = "" THEN [ok |-> FALSE, val |-> 0]
    ELSE ParseFloat(TrimSpace(v.s))

\* A window object (its fields by name), or none.
NullWindow == [exists |-> FALSE, f |-> <<>>]
Window(f) == [exists |-> TRUE, f |-> f]
WGet(w, k) == IF w.exists /\ k \in DOMAIN w.f THEN w.f[k] ELSE NoValue

\* A rate-limit section (its flags, its windows by name), or none.
NullSection == [exists |-> FALSE, limit_reached |-> FALSE, limitReached |-> FALSE,
                allowed |-> "absent", w |-> <<>>]
SGet(sec, k) == IF sec.exists /\ k \in DOMAIN sec.w THEN sec.w[k] ELSE NullWindow
PGet(payload, k) == IF k \in DOMAIN payload THEN payload[k] ELSE NullSection

\* Mutant: the relative reset is preferred to the absolute epoch.
codexWindowRecoverAt_RelativeFirst(window, t) ==
    LET a == gjsonToFloat(WGet(window, "reset_at"))
        b == gjsonToFloat(WGet(window, "resetAt"))
        c == gjsonToFloat(WGet(window, "reset_after_seconds"))
        d == gjsonToFloat(WGet(window, "resetAfterSeconds"))
    IN IF c.ok /\ c.val > 0 THEN [ok |-> TRUE, at |-> t + c.val]
       ELSE IF d.ok /\ d.val > 0 THEN [ok |-> TRUE, at |-> t + d.val]
       ELSE IF a.ok /\ a.val > 0 THEN [ok |-> TRUE, at |-> a.val]
       ELSE IF b.ok /\ b.val > 0 THEN [ok |-> TRUE, at |-> b.val]
       ELSE [ok |-> FALSE, at |-> 0]

codexWindowRecoverAt(window, t) ==
    LET a == gjsonToFloat(WGet(window, "reset_at"))
        b == gjsonToFloat(WGet(window, "resetAt"))
        c == gjsonToFloat(WGet(window, "reset_after_seconds"))
        d == gjsonToFloat(WGet(window, "resetAfterSeconds"))
    IN IF a.ok /\ a.val > 0 THEN [ok |-> TRUE, at |-> a.val]
       ELSE IF b.ok /\ b.val > 0 THEN [ok |-> TRUE, at |-> b.val]
       ELSE IF c.ok /\ c.val > 0 THEN [ok |-> TRUE, at |-> t + c.val]
       ELSE IF d.ok /\ d.val > 0 THEN [ok |-> TRUE, at |-> t + d.val]
       ELSE [ok |-> FALSE, at |-> 0]

\* Mutant: a window that is not limiting contributes a candidate too.
appendCodexWindowCandidate_AnyWindow(cands, window, parentLimited, reason, t) ==
    LET r == codexWindowRecoverAt(window, t)
    IN IF ~window.exists THEN cands
       ELSE IF ~r.ok \/ ~(r.at > t) THEN cands
       ELSE Append(cands, [resetAt |-> r.at, reason |-> reason])

appendCodexWindowCandidate(cands, window, parentLimited, reason, t) ==
    LET u1 == gjsonToFloat(WGet(window, "used_percent"))
        u2 == gjsonToFloat(WGet(window, "usedPercent"))
        windowLimited == parentLimited \/ (u1.ok /\ u1.val >= 100) \/ (u2.ok /\ u2.val >= 100)
        r == codexWindowRecoverAt(window, t)
    IN IF ~window.exists THEN cands
       ELSE IF ~windowLimited THEN cands
       ELSE IF ~r.ok \/ ~(r.at > t) THEN cands
       ELSE Append(cands, [resetAt |-> r.at, reason |-> reason])

resolveCodexWindowReason(window, reasonPrimary, reasonSecondary) ==
    LET atLeastADay(k) == LET v == gjsonToFloat(WGet(window, k))
                          IN v.ok /\ v.val >= 24 * 60 * 60
    IN IF reasonPrimary = reasonSecondary THEN reasonPrimary
       ELSE IF ~window.exists THEN reasonPrimary
       ELSE IF atLeastADay("limit_window_seconds") THEN reasonSecondary
       ELSE IF atLeastADay("limitWindowSeconds") THEN reasonSecondary
       ELSE IF atLeastADay("reset_after_seconds") THEN reasonSecondary
       ELSE IF atLeastADay("resetAfterSeconds") THEN reasonSecondary
       ELSE reasonPrimary

addByRateLimit(cands, rateLimit, reasonPrimary, reasonSecondary, t) ==
    LET parentLimited == \/ rateLimit.limit_reached \/ rateLimit.limitReached
                         \/ rateLimit.allowed = "false"
        pw1 == SGet(rateLimit, "primary_window")
        pw2 == SGet(rateLimit, "primaryWindow")
        c1 == appendCodexWindowCandidate(cands, pw1, parentLimited,
                  resolveCodexWindowReason(pw1, reasonPrimary, reasonSecondary), t)
        c2 == appendCodexWindowCandidate(c1, pw2, parentLimited,
                  resolveCodexWindowReason(pw2, reasonPrimary, reasonSecondary), t)
        c3 == appendCodexWindowCandidate(c2, SGet(rateLimit, "secondary_window"),
                  parentLimited, reasonSecondary, t)
    IN IF ~rateLimit.exists THEN cands
       ELSE appendCodexWindowCandidate(c3, SGet(rateLimit, "secondaryWindow"),
                parentLimited, reasonSecondary, t)

\* The candidates of a payload, in the order the sections and windows are read.
codexQuotaCandidates(payload, t) ==
    LET c1 == addByRateLimit(<<>>, PGet(payload, "rate_limit"),
                             "codex_5h_limit", "codex_weekly_limit", t)
        c2 == addByRateLimit(c1, PGet(payload, "rateLimit"),
                             "codex_5h_limit", "codex_weekly_limit", t)
        c3 == addByRateLimit(c2, PGet(payload, "code_review_rate_limit"),
                             "codex_code_review_limit", "codex_code_review_limit", t)
    IN addByRateLimit(c3, PGet(payload, "codeReviewRateLimit"),
                      "codex_code_review_limit", "codex_code_review_limit", t)

\* Mutant: the first candidate is returned.
Earliest_First(cands) == cands[1]

\* The loop over the candidates: a later one replaces the current one only
\* when its time is before the current one's.
RECURSIVE EarliestFrom(_, _, _)
EarliestFrom(cands, i, cur) ==
    IF i > Len(cands) THEN cur
    ELSE EarliestFrom(cands, i + 1,
                      IF cands[i].resetAt < cur.resetAt THEN cands[i] ELSE cur)

Earliest(cands) == EarliestFrom(cands, 2, cands[1])

codexQuotaRecoverAt(payload, t) ==
    CHOOSE res \in
        { IF cands = <<>> THEN [resetAt |-> 0, reason |-> "", ok |-> FALSE]
          ELSE [resetAt |-> Earliest(cands).resetAt, reason |-> Earliest(cands).reason,
                ok |-> TRUE] : cands \in {codexQuotaCandidates(payload, t)} } : TRUE

\* The usage payloads the model feeds in.
W5h == Window("reset_after_seconds" :> Num(18000))
WDay == Window("reset_after_seconds" :> Num(86400))
WWeekly == Window("limit_window_seconds" :> Num(604800) @@ "reset_after_seconds" :> Num(604800))
WAbsolute == Window("reset_at" :> Num(300) @@ "used_percent" :> Num(100))
WBoth == Window("reset_at" :> Num(300) @@ "reset_after_seconds" :> Num(60)
                @@ "used_percent" :> Num(100))
WIdle == Window("used_percent" :> Num(40) @@ "reset_after_seconds" :> Num(60))
WText == Window("resetAfterSeconds" :> Str(" 86400 ") @@ "usedPercent" :> Str("100"))
WHour == Window("reset_after_seconds" :> Num(3600))

GeneralSections ==
    {[exists |-> TRUE, limit_reached |-> lr, limitReached |-> FALSE, allowed |-> "absent",
      w |-> ("primary_window" :> pw @@ "secondary_window" :> sw)] :
        lr \in BOOLEAN, pw \in {NullWindow, W5h, WWeekly, WAbsolute, WBoth, WIdle},
        sw \in {NullWindow, W5h, WDay, WText}}

ReviewSections ==
    { NullSection,
      [exists |-> TRUE, limit_reached |-> FALSE, limitReached |-> FALSE, allowed |-> "false",
       w |-> ("primaryWindow" :> WHour)],
      [exists |-> TRUE, limit_reached |-> FALSE, limitReached |-> TRUE, allowed |-> "absent",
       w |-> ("secondaryWindow" :> WDay)] }

Payloads ==
    {("rate_limit" :> g @@ "codeReviewRateLimit" :> r) :
        g \in GeneralSections, r \in ReviewSections}

\* the payload of the test: the general section has reached its limit, its
\* primary window resets in 18000 s, its secondary window in 86400 s
NearestWindowPayload ==
    ("rate_limit" :> [exists |-> TRUE, limit_reached |-> TRUE, limitReached |-> FALSE,
                      allowed |-> "absent",
                      w |-> ("primary_window" :> W5h @@ "secondary_window" :> WDay)]
     @@ "codeReviewRateLimit" :> NullSection)

\* the general section has reached its limit, its one window resets in 60 s
MinutePayload ==
    ("rate_limit" :> [exists |-> TRUE, limit_reached |-> TRUE, limitReached |-> FALSE,
                      allowed |-> "absent",
                      w |-> ("primary_window" :> WIdle @@ "secondary_window" :> NullWindow)]
     @@ "codeReviewRateLimit" :> NullSection)

\* no section has reached its limit
IdlePayload ==
    ("rate_limit" :> [exists |-> TRUE, limit_reached |-> FALSE, limitReached |-> FALSE,
                      allowed |-> "absent",
                      w |-> ("primary_window" :> WIdle @@ "secondary_window" :> NullWindow)]
     @@ "codeReviewRateLimit" :> NullSection)

(***************************************************************************)
(* Codex executor: Execute and ExecuteStream                               *)
(***************************************************************************)
ExecAuths == {"auth-c", "auth-d", NilAuth}
Modes == {"Execute", "ExecuteStream"}

\* codexCreds: the credential's token (api_key of the attributes, else the access token)
codexToken(authID) ==
    IF authID = NilAuth THEN ""
    ELSE IF AuthOf(authID).api_key # "" THEN AuthOf(authID).api_key ELSE "access-token"

\* baseURL + "/responses", with the default base URL
OriginalURL == [base |-> "https://chatgpt.com", path |-> "/backend-api/codex/responses",
                query |-> ""]

applyCodexHeaders(authID) ==
    [k \in {"Content-Type", "Authorization"} |->
        IF k = "Content-Type" THEN "application/json" ELSE "Bearer " \o codexToken(authID)]

\* What a send can end in: a transport error (cancellation included), or a
\* response with its status, its body, and whether the body could be read.
NoResp == [kind |-> "none", status |-> 0, body |-> "", readOK |-> TRUE, hdrs |-> <<>>]
Outcomes ==
    {[kind |-> "err", status |-> 0, body |-> "", readOK |-> TRUE, hdrs |-> <<>>]}
    \cup {[kind |-> "resp", status |-> 200, body |-> "data: response.completed",
           readOK |-> TRUE, hdrs |-> <<>>]}
    \cup {[kind |-> "resp", status |-> st, body |-> b, readOK |-> TRUE, hdrs |-> <<>>] :
             st \in {400, 404, 429}, b \in {"invalid model", "upstream status 404"}}
    \cup {[kind |-> "resp", status |-> st, body |-> "", readOK |-> FALSE, hdrs |-> <<>>] :
             st \in {400, 404}}
    \cup {[kind |-> "resp", status |-> st, body |-> "invalid model", readOK |-> TRUE,
           hdrs |-> ("Retry-After" :> "120")] : st \in {400, 429}}

Is2xx(status) == status >= 200 /\ status < 300

NoResult == [kind |-> "none", code |-> 0, msg |-> ""]
\* the call goes on to read the 2xx body
ResultOK == [kind |-> "ok", code |-> 0, msg |-> ""]
\* the error of the transport (or of reading the body) is returned as it is
ResultErr == [kind |-> "err", code |-> 0, msg |-> ""]

\* strconv.Atoi over the header values the model uses
Atoi(s) ==
    CASE s = "120" -> [ok |-> TRUE, val |-> 120]
      [] s = "60"  -> [ok |-> TRUE, val |-> 60]
      [] s = "+30" -> [ok |-> TRUE, val |-> 30]
      [] s = "0"   -> [ok |-> TRUE, val |-> 0]
      [] s = "-5"  -> [ok |-> TRUE, val |-> -5]
      [] OTHER     -> [ok |-> FALSE, val |-> 0]

\* http.ParseTime over the header values the model uses: the instant, in
\* seconds of the model's clock
ParseTime(s) ==
    CASE s = "Thu, 01 Jan 1970 00:00:01 GMT"     -> [ok |-> TRUE, at |-> 1]
      [] s = "Thu, 01 Jan 1970 00:05:00 GMT"     -> [ok |-> TRUE, at |-> 300]
      [] s = "Thursday, 01-Jan-70 00:05:30 GMT"  -> [ok |-> TRUE, at |-> 330]
      [] OTHER                                   -> [ok |-> FALSE, at |-> 0]

\* a nil *time.Duration
NoRetryAfter == -1

\* Mutant: a date that has passed is answered with its (negative) distance.
parseRetryAfterHeader_NoPastCheck(headers, t) ==
    LET raw == TrimSpace(HeaderGet(headers, "Retry-After")) IN
    IF DOMAIN headers = {} THEN NoRetryAfter
    ELSE IF raw = "" THEN NoRetryAfter
    ELSE IF Atoi(raw).ok /\ Atoi(raw).val > 0 THEN Atoi(raw).val
    ELSE IF ~ParseTime(raw).ok THEN NoRetryAfter
    ELSE ParseTime(raw).at - t

\* parseRetryAfterHeader(headers), time.Now() being t; durations in seconds
parseRetryAfterHeader(headers, t) ==
    LET raw == TrimSpace(HeaderGet(headers, "Retry-After")) IN
    IF DOMAIN headers = {} THEN NoRetryAfter
    ELSE IF raw = "" THEN NoRetryAfter
    ELSE IF Atoi(raw).ok /\ Atoi(raw).val > 0 THEN Atoi(raw).val
    ELSE IF ~ParseTime(raw).ok THEN NoRetryAfter
    ELSE IF ParseTime(raw).at - t <= 0 THEN NoRetryAfter
    ELSE ParseTime(raw).at - t

\* What the usage lookup can end in: a transport error (its 3 s timeout
\* included), or a response with its status and its body (empty, or a payload).
UsageOutcomes ==
    {[kind |-> "err", status |-> 0, empty |-> TRUE, payload |-> <<>>],
     [kind |-> "resp", status |-> 500, empty |-> FALSE, payload |-> NearestWindowPayload],
     [kind |-> "resp", status |-> 200, empty |-> TRUE, payload |-> <<>>],
     [kind |-> "resp", status |-> 200, empty |-> FALSE, payload |-> NearestWindowPayload],
     [kind |-> "resp", status |-> 200, empty |-> FALSE, payload |-> MinutePayload],
     [kind |-> "resp", status |-> 200, empty |-> FALSE, payload |-> IdlePayload]}

\* a zero codexQuotaCooldownHint, returned with ok = false
NoHint == [ok |-> FALSE, retryAfter |-> 0, reason |-> ""]

\* fetchCodexQuotaCooldownHint makes the lookup: it has a credential with a token
hasUsageToken(authID) == authID # NilAuth /\ TrimSpace(codexToken(authID)) # ""

\* fetchCodexQuotaCooldownHint from client.Do on: uo is what the lookup ended
\* in, t is time.Now() after the body was read
fetchCodexQuotaCooldownHint(uo, t) ==
    IF uo.kind = "err" THEN NoHint
    ELSE IF ~Is2xx(uo.status) THEN NoHint
    ELSE IF uo.empty THEN NoHint
    ELSE CHOOSE h \in
           { IF ~rec.ok \/ rec.resetAt = 0 \/ ~(rec.resetAt > t) THEN NoHint
             ELSE [ok |-> TRUE, retryAfter |-> rec.resetAt - t, reason |-> rec.reason] :
               rec \in {codexQuotaRecoverAt(uo.payload, t)} } : TRUE

\* a statusErr
statusErr(code, msg, retryAfter, quotaReason) ==
    [kind |-> "statusErr", code |-> code, msg |-> msg, retryAfter |-> retryAfter,
     quotaReason |-> quotaReason]

\* newCodexStatusErr up to the usage lookup: the status, the body and, for a
\* 429, the Retry-After header
statusErrBeforeHint(statusCode, body, headers, t) ==
    IF statusCode # 429 THEN statusErr(statusCode, body, NoRetryAfter, "")
    ELSE statusErr(statusCode, body, parseRetryAfterHeader(headers, t), "")

\* newCodexStatusErr from the usage lookup on
withHint(sErr, hint) ==
    IF ~hint.ok THEN sErr
    ELSE [sErr EXCEPT !.retryAfter = IF hint.retryAfter > 0 THEN hint.retryAfter
                                     ELSE sErr.retryAfter,
                      !.quotaReason = hint.reason]

\* newCodexStatusErr when no usage lookup is made: the status is not 429, or
\* there is no credential with a token
newCodexStatusErr(statusCode, body, headers, t) ==
    withHint(statusErrBeforeHint(statusCode, body, headers, t), NoHint)

\* Mutant: the usage lookup is made whatever the status.
statusErrStep_AlwaysLookup(q, o) ==
    IF hasUsageToken(q.auth) THEN [pc |-> "usage", result |-> NoResult]
    ELSE [pc |-> "done", result |-> newCodexStatusErr(o.status, o.body, o.hdrs, now)]

\* Where a non-2xx response that is not retried takes the call: to the usage
\* lookup for a 429 of a credential with a token, else to its end.
statusErrStep(q, o) ==
    IF o.status = 429 /\ hasUsageToken(q.auth) THEN [pc |-> "usage", result |-> NoResult]
    ELSE [pc |-> "done", result |-> newCodexStatusErr(o.status, o.body, o.hdrs, now)]

\* no helper has been called yet
NoHelperCall == [fn |-> "none"]

\* the clock read by the call's banReverseProxyTemporarily, NoBan before it
NoBan == -1

\* the locks a call can hold
BanMu == "reverseProxyBanState.mu"
AuthsMu == "Manager.mu (read)"
\* no clock has been read for the ban state
NoClock == -1

NoRoute == [URL |-> NoURL, ProxyID |-> "", Proxied |-> FALSE]
ReqIdle == [pc |-> "idle", mode |-> "", auth |-> NilAuth, route |-> NoRoute,
            hdrs |-> <<>>, sent |-> <<>>, first |-> NoResp, resp |-> NoResp,
            result |-> NoResult, banAt |-> NoBan, pending |-> NoResult,
            usage |-> <<>>, hint |-> NoHint, e |-> NoConfig, perm |-> NilResult,
            seen |-> <<>>, locks |-> {}, clock |-> NoClock]

\* Mutant: every step reads the configuration that is current when it runs.
execCfg_Live(q) == cfg

\* e.cfg: the configuration of the executor the call runs on
execCfg(q) == q.e

\* The keys the calls come with.
ExecKeys == {"client-1", ""}

\* The manager dispatches a call of Execute or ExecuteStream: it loads the
\* configuration and resolves the client key's references against it; for a
\* key with references it goes on to read the credential list under its read
\* lock, else it hands the credential to the executor built with that
\* configuration.
ExecStart(r, mode, authID, key) ==
    LET perm == allowedAuthRefsForClientKey(cfg.APIKeyAuth, key) IN
    /\ reqs[r].pc \in {"idle", "done"}
    /\ perm.restricted => (authID # NilAuth /\ authMatchesAllowedRefs(AuthOf(authID), perm.allowed))
    /\ reqs' = [reqs EXCEPT ![r] =
                   [ReqIdle EXCEPT !.pc = IF perm.restricted THEN "pick" ELSE "resolve",
                                   !.mode = mode, !.auth = authID, !.e = cfg, !.perm = perm,
                                   !.seen = <<cfg>>,
                                   !.locks = IF perm.restricted THEN {AuthsMu} ELSE {}]]
    /\ UNCHANGED <<permVars, banVars, cfg, helpVars, cacheVars, streamVars>>

\* AllowedAuthIDsForClientKey returns: the read lock is released (deferred),
\* the credential goes to the executor.
ExecPick(r) ==
    LET q == reqs[r] IN
    /\ q.pc = "pick"
    /\ reqs' = [reqs EXCEPT ![r].pc = "resolve", ![r].locks = q.locks \ {AuthsMu}]
    /\ UNCHANGED <<permVars, banVars, cfg, helpVars, cacheVars, streamVars>>

\* The configuration is replaced: later calls get the new one.
ReplaceConfig(c) ==
    /\ c # cfg
    /\ cfg' = c
    /\ UNCHANGED <<permVars, banVars, reqs, helpVars, cacheVars, streamVars>>

\* The proxy ID the call's next step gives to isReverseProxyTemporarilyBanned
\* or to banReverseProxyTemporarily, trimmed; "" when the step calls neither
\* or the function returns before it takes the lock.
banStateID(q) ==
    IF q.pc = "resolve" THEN TrimSpace(RouteProxyID(execCfg(q), q.auth, "codex"))
    ELSE IF q.pc \in {"build1", "build2"}
      THEN IF RouteProxyID(execCfg(q), q.auth, "codex") = "" THEN ""
           ELSE TrimSpace(RouteProxyID(execCfg(q), q.auth, "codex"))
    ELSE IF q.pc = "ban" THEN TrimSpace(q.route.ProxyID)
    ELSE ""

\* Mutant: the mutex is still held when the function has returned.
unlockBanState_Kept(locks) == locks

\* reverseProxyBanState.mu.Unlock()
unlockBanState(locks) == locks \ {BanMu}

\* time.Now(), then reverseProxyBanState.mu.Lock(): the mutex is free
ExecLock(r) ==
    LET q == reqs[r] IN
    /\ banStateID(q) # ""
    /\ BanMu \notin q.locks
    /\ \A o \in DOMAIN reqs : BanMu \notin reqs[o].locks
    /\ reqs' = [reqs EXCEPT ![r].locks = q.locks \cup {BanMu}, ![r].clock = now]
    /\ UNCHANGED <<permVars, banVars, cfg, helpVars, cacheVars, streamVars>>

\* the step's call into the ban state, if it makes one, holds the mutex
InBanState(q) == banStateID(q) # "" => BanMu \in q.locks

\* proxyRoute := resolveReverseProxyRouteForAuth(e.cfg, auth, "codex", originalURL)
ExecResolve(r) ==
    LET q == reqs[r]
        c == execCfg(q)
        pid == RouteProxyID(c, q.auth, "codex")
        chk == BanCheckAt(pid, q.clock)
    IN
    /\ q.pc = "resolve"
    /\ InBanState(q)
    /\ bannedTill' = chk.bt
    /\ reqs' = [reqs EXCEPT ![r].pc = "build1",
                            ![r].route = resolveReverseProxyRouteWithID(
                                             c, pid, "codex", OriginalURL, chk.banned),
                            ![r].seen = Append(q.seen, c),
                            ![r].locks = unlockBanState(q.locks), ![r].clock = NoClock]
    /\ UNCHANGED <<permVars, now, banCalls, lastRead, cfg, helpVars, cacheVars, streamVars>>

\* cacheHelper(url), applyCodexHeaders, applyReverseProxyHeaders
ExecBuild1(r) ==
    LET q == reqs[r]
        c == execCfg(q)
        chk == HeaderBanCheckAt(c, q.auth, "codex", q.clock)
    IN
    /\ q.pc = "build1"
    /\ InBanState(q)
    /\ bannedTill' = chk.bt
    /\ reqs' = [reqs EXCEPT ![r].pc = "send1",
                            ![r].hdrs = applyReverseProxyHeaders(
                                            applyCodexHeaders(q.auth), c, q.auth, "codex",
                                            chk.banned),
                            ![r].seen = Append(q.seen, c),
                            ![r].locks = unlockBanState(q.locks), ![r].clock = NoClock]
    /\ UNCHANGED <<permVars, now, banCalls, lastRead, cfg, helpVars, cacheVars, streamVars>>

\* httpClient.Do(httpReq): the request leaves
ExecSend1(r) ==
    LET q == reqs[r] IN
    /\ q.pc = "send1"
    /\ reqs' = [reqs EXCEPT ![r].pc = "wait1",
                            ![r].sent = Append(q.sent, [url |-> q.route.URL, hdrs |-> q.hdrs])]
    /\ UNCHANGED <<permVars, banVars, cfg, helpVars, cacheVars, streamVars>>

\* Mutant: a non-2xx response is retried direct whether or not the call was proxied.
AfterFirst_RetryUnproxied(q, o) ==
    IF o.kind = "err" THEN [pc |-> "done", result |-> ResultErr]
    ELSE IF Is2xx(o.status) THEN [pc |-> "done", result |-> ResultOK]
    ELSE IF q.mode = "ExecuteStream" /\ ~o.readOK THEN [pc |-> "done", result |-> ResultErr]
    ELSE IF shouldBanReverseProxyOnError(o.status, o.body)
      THEN [pc |-> "ban", result |-> NoResult]
    ELSE statusErrStep(q, o)

\* Mutant: every non-2xx response of a proxied call trips the breaker.
AfterFirst_BanAnyFailure(q, o) ==
    IF o.kind = "err" THEN [pc |-> "done", result |-> ResultErr]
    ELSE IF Is2xx(o.status) THEN [pc |-> "done", result |-> ResultOK]
    ELSE IF q.mode = "ExecuteStream" /\ ~o.readOK THEN [pc |-> "done", result |-> ResultErr]
    ELSE IF q.route.Proxied THEN [pc |-> "ban", result |-> NoResult]
    ELSE statusErrStep(q, o)

\* Mutant: the direct retry is made without recording the ban.
AfterFirst_SkipBan(q, o) ==
    IF o.kind = "err" THEN [pc |-> "done", result |-> ResultErr]
    ELSE IF Is2xx(o.status) THEN [pc |-> "done", result |-> ResultOK]
    ELSE IF q.mode = "ExecuteStream" /\ ~o.readOK THEN [pc |-> "done", result |-> ResultErr]
    ELSE IF q.route.Proxied /\ shouldBanReverseProxyOnError(o.status, o.body)
      THEN [pc |-> "build2", result |-> NoResult]
    ELSE statusErrStep(q, o)

\* What the call does with the outcome of its first send.
AfterFirst(q, o) ==
    IF o.kind = "err" THEN [pc |-> "done", result |-> ResultErr]
    ELSE IF Is2xx(o.status) THEN [pc |-> "done", result |-> ResultOK]
    ELSE IF q.mode = "ExecuteStream" /\ ~o.readOK THEN [pc |-> "done", result |-> ResultErr]
    ELSE IF q.route.Proxied /\ shouldBanReverseProxyOnError(o.status, o.body)
      THEN [pc |-> "ban", result |-> NoResult]
    ELSE statusErrStep(q, o)

\* the GET of the usage lookup as it leaves
codexUsageURL == "https://chatgpt.com/backend-api/wham/usage"
usageRequest(authID) ==
    [url |-> codexUsageURL, Authorization |-> "Bearer " \o TrimSpace(codexToken(authID))]

\* The fields of a call that its step after a response sets: for the usage
\* lookup the status error built so far is kept and the lookup leaves.
afterResponse(q, o, nxt) ==
    [q EXCEPT !.pc = nxt.pc, !.resp = o, !.result = nxt.result,
              !.pending = IF nxt.pc = "usage"
                            THEN statusErrBeforeHint(o.status, o.body, o.hdrs, now)
                            ELSE NoResult,
              !.usage = IF nxt.pc = "usage" THEN Append(q.usage, usageRequest(q.auth))
                        ELSE q.usage]

\* httpClient.Do returns; the status is inspected
ExecReceive1(r, o) ==
    LET q == reqs[r]
        nxt == AfterFirst(q, o)
    IN
    /\ q.pc = "wait1"
    /\ reqs' = [reqs EXCEPT ![r] = [afterResponse(q, o, nxt) EXCEPT !.first = o]]
    /\ UNCHANGED <<permVars, banVars, cfg, helpVars, cacheVars, streamVars>>

\* client.Do of the usage lookup returns: the hint, then the status error
ExecUsage(r, uo) ==
    LET q == reqs[r]
        hint == fetchCodexQuotaCooldownHint(uo, now)
    IN
    /\ q.pc = "usage"
    /\ reqs' = [reqs EXCEPT ![r].pc = "done", ![r].hint = hint,
                            ![r].result = withHint(q.pending, hint)]
    /\ UNCHANGED <<permVars, banVars, cfg, helpVars, cacheVars, streamVars>>

\* banReverseProxyTemporarily(proxyRoute.ProxyID, ...): the expiry is the
\* clock read before the lock plus the TTL
ExecBan(r) ==
    LET q == reqs[r]
        at == IF banStateID(q) = "" THEN now ELSE q.clock
    IN
    /\ q.pc = "ban"
    /\ InBanState(q)
    /\ bannedTill' = IF TrimSpace(q.route.ProxyID) = "" THEN bannedTill
                     ELSE banStore(bannedTill, TrimSpace(q.route.ProxyID),
                                   at + reverseProxyBanTTL)
    /\ reqs' = [reqs EXCEPT ![r].pc = "build2", ![r].banAt = at,
                            ![r].locks = unlockBanState(q.locks), ![r].clock = NoClock]
    /\ UNCHANGED <<permVars, now, banCalls, lastRead, cfg, helpVars, cacheVars, streamVars>>

\* Mutant: the retry goes to the rewritten URL again.
FallbackURL_Proxied(q) == q.route.URL

\* fallbackURL := originalURL
FallbackURL(q) == OriginalURL

\* cacheHelper(fallbackURL), applyCodexHeaders, applyReverseProxyHeaders
ExecBuild2(r) ==
    LET q == reqs[r]
        c == execCfg(q)
        chk == HeaderBanCheckAt(c, q.auth, "codex", q.clock)
    IN
    /\ q.pc = "build2"
    /\ InBanState(q)
    /\ bannedTill' = chk.bt
    /\ reqs' = [reqs EXCEPT ![r].pc = "send2",
                            ![r].hdrs = applyReverseProxyHeaders(
                                            applyCodexHeaders(q.auth), c, q.auth, "codex",
                                            chk.banned),
                            ![r].seen = Append(q.seen, c),
                            ![r].locks = unlockBanState(q.locks), ![r].clock = NoClock]
    /\ UNCHANGED <<permVars, now, banCalls, lastRead, cfg, helpVars, cacheVars, streamVars>>

\* httpClient.Do(httpReq): the direct retry leaves
ExecSend2(r) ==
    LET q == reqs[r] IN
    /\ q.pc = "send2"
    /\ reqs' = [reqs EXCEPT ![r].pc = "wait2",
                            ![r].sent = Append(q.sent, [url |-> FallbackURL(q), hdrs |-> q.hdrs])]
    /\ UNCHANGED <<permVars, banVars, cfg, helpVars, cacheVars, streamVars>>

\* What the call does with the outcome of the retry.
AfterRetry(q, o) ==
    IF o.kind = "err" THEN [pc |-> "done", result |-> ResultErr]
    ELSE IF Is2xx(o.status) THEN [pc |-> "done", result |-> ResultOK]
    ELSE IF q.mode = "ExecuteStream" /\ ~o.readOK THEN [pc |-> "done", result |-> ResultErr]
    ELSE statusErrStep(q, o)

\* httpClient.Do returns for the retry
ExecReceive2(r, o) ==
    LET q == reqs[r] IN
    /\ q.pc = "wait2"
    /\ reqs' = [reqs EXCEPT ![r] = afterResponse(q, o, AfterRetry(q, o))]
    /\ UNCHANGED <<permVars, banVars, cfg, helpVars, cacheVars, streamVars>>

\* baseURL + "/responses/compact", with the default base URL
CompactURL == [base |-> "https://chatgpt.com", path |-> "/backend-api/codex/responses/compact",
               query |-> ""]

\* Execute with opts.Alt = "responses/compact": executeCompact builds its
\* request for the upstream URL: cacheHelper(url), applyCodexHeaders,
\* applyReverseProxyHeaders with its own ban check
CompactBuild(r, authID) ==
    LET chk == HeaderBanCheckAt(cfg, authID, "codex", now) IN
    /\ reqs[r].pc \in {"idle", "done"}
    /\ bannedTill' = chk.bt
    /\ reqs' = [reqs EXCEPT ![r] =
                   [ReqIdle EXCEPT !.pc = "sendc", !.mode = "executeCompact", !.auth = authID,
                                   !.e = cfg, !.seen = <<cfg>>,
                                   !.route = [NoRoute EXCEPT !.URL = CompactURL],
                                   !.hdrs = applyReverseProxyHeaders(
                                                applyCodexHeaders(authID), cfg, authID, "codex",
                                                chk.banned)]]
    /\ UNCHANGED <<permVars, now, banCalls, lastRead, cfg, helpVars, cacheVars, streamVars>>

\* httpClient.Do(httpReq) of executeCompact: the request leaves
CompactSend(r) ==
    LET q == reqs[r] IN
    /\ q.pc = "sendc"
    /\ reqs' = [reqs EXCEPT ![r].pc = "waitc",
                            ![r].sent = Append(q.sent, [url |-> q.route.URL, hdrs |-> q.hdrs])]
    /\ UNCHANGED <<permVars, banVars, cfg, helpVars, cacheVars, streamVars>>

\* What executeCompact does with the outcome of its send: no ban, no retry.
AfterCompact(q, o) ==
    IF o.kind = "err" THEN [pc |-> "done", result |-> ResultErr]
    ELSE IF Is2xx(o.status)
      THEN [pc |-> "done", result |-> IF o.readOK THEN ResultOK ELSE ResultErr]
    ELSE statusErrStep(q, o)

CompactReceive(r, o) ==
    LET q == reqs[r] IN
    /\ q.pc = "waitc"
    /\ reqs' = [reqs EXCEPT ![r] = [afterResponse(q, o, AfterCompact(q, o)) EXCEPT !.first = o]]
    /\ UNCHANGED <<permVars, banVars, cfg, helpVars, cacheVars, streamVars>>

\* The headers PrepareRequest leaves on the caller's request: Authorization
\* when the credential has a token, then the reverse proxy's headers.
prepareHeaders(hdrs, c, authID, banned) ==
    applyReverseProxyHeaders(
        IF TrimSpace(codexToken(authID)) # ""
        THEN [k \in DOMAIN hdrs \cup {"Authorization"} |->
                 IF k = "Authorization" THEN "Bearer " \o codexToken(authID) ELSE hdrs[k]]
        ELSE hdrs,
        c, authID, "codex", banned)

\* PrepareRequest(req, auth) on a request the caller built for the upstream
PrepareRequest(r, authID, hdrs) ==
    LET chk == HeaderBanCheckAt(cfg, authID, "codex", now) IN
    /\ reqs[r].pc \in {"idle", "done"}
    /\ bannedTill' = chk.bt
    /\ reqs' = [reqs EXCEPT ![r] =
                   [ReqIdle EXCEPT !.pc = "done", !.mode = "PrepareRequest", !.auth = authID,
                                   !.e = cfg, !.seen = <<cfg>>,
                                   !.route = [NoRoute EXCEPT !.URL = OriginalURL],
                                   !.hdrs = prepareHeaders(hdrs, cfg, authID, chk.banned)]]
    /\ UNCHANGED <<permVars, now, banCalls, lastRead, cfg, helpVars, cacheVars, streamVars>>

\* HttpRequest(ctx, auth, req): PrepareRequest, then httpClient.Do; what Do
\* returns goes back to the caller as it is
HttpRequest(r, authID, hdrs, o) ==
    LET chk == HeaderBanCheckAt(cfg, authID, "codex", now)
        prepared == prepareHeaders(hdrs, cfg, authID, chk.banned)
    IN
    /\ reqs[r].pc \in {"idle", "done"}
    /\ bannedTill' = chk.bt
    /\ reqs' = [reqs EXCEPT ![r] =
                   [ReqIdle EXCEPT !.pc = "done", !.mode = "HttpRequest", !.auth = authID,
                                   !.e = cfg, !.seen = <<cfg>>,
                                   !.route = [NoRoute EXCEPT !.URL = OriginalURL],
                                   !.hdrs = prepared,
                                   !.sent = <<[url |-> OriginalURL, hdrs |-> prepared]>>,
                                   !.first = o, !.resp = o,
                                   !.result = IF o.kind = "err" THEN ResultErr ELSE ResultOK]]
    /\ UNCHANGED <<permVars, now, banCalls, lastRead, cfg, helpVars, cacheVars, streamVars>>

\* The headers of the requests the callers of PrepareRequest and HttpRequest
\* bring.
CallerHeaders == {<<>>, "Content-Type" :> "application/json"}

\* The configurations an executor is built with.
Proxy1 == [ID |-> "deno-1", BaseURL |-> "https://deno-1.example/", Enabled |-> TRUE,
           Headers |-> [k \in {"x-worker-token", "Authorization"} |->
                           IF k = "x-worker-token" THEN " worker-secret " ELSE "Bearer proxy"]]
Proxy2 == [ID |-> "deno-2", BaseURL |-> "https://deno-2.example", Enabled |-> TRUE,
           Headers |-> <<>>]
Proxy3 == [ID |-> "deno-3", BaseURL |-> "https://deno-2.example", Enabled |-> FALSE,
           Headers |-> <<>>]

ExecConfigs ==
    { NoConfig,
      [ProxyRouting |-> [p \in {"codex"} |-> "deno-1"], ProxyRoutingAuth |-> <<>>,
       ReverseProxies |-> <<Proxy1, Proxy2>>, ReverseProxyWorkerURL |-> "",
       APIKeyAuth |-> [k \in {"client-1"} |-> <<"auth-c", " codex-d.json ">>]],
      [ProxyRouting |-> [p \in {"codex"} |-> "deno-1"],
       ProxyRoutingAuth |-> [ref \in {"codex-d.json"} |-> " deno-2 "],
       ReverseProxies |-> <<Proxy1, Proxy2, Proxy3>>,
       ReverseProxyWorkerURL |-> "https://bridge.example",
       APIKeyAuth |-> [k \in {"client-1"} |-> <<"codex-d.json">>]],
      [ProxyRouting |-> [p \in {"codex"} |-> "deno-3"],
       ProxyRoutingAuth |-> [ref \in {"auth-c"} |-> "deno-1"],
       ReverseProxies |-> <<Proxy1, Proxy3>>, ReverseProxyWorkerURL |-> "",
       APIKeyAuth |-> <<>>] }

Reqs == {"r1"}

(***************************************************************************)
(* The config API-key access provider                                      *)
(***************************************************************************)
\* time.Time{}: the zero instant, long before the clock's origin
ZeroTime == -2000000000

\* time.Parse(time.RFC3339, val) over the values the model uses; the clock's
\* origin is 1970-01-01T00:00:00Z
NoTime == [ok |-> FALSE, t |-> ZeroTime]
ParseRFC3339(val) ==
    CASE val = "0001-01-01T00:00:00Z" -> [ok |-> TRUE, t |-> ZeroTime]
      [] val = "1970-01-01T00:00:00Z" -> [ok |-> TRUE, t |-> 0]
      [] val = "1970-01-01T00:00:01Z" -> [ok |-> TRUE, t |-> 1]
      [] val = "1970-01-01T00:05:00Z" -> [ok |-> TRUE, t |-> 300]
      [] val = "1970-01-01T00:05:01Z" -> [ok |-> TRUE, t |-> 301]
      [] OTHER -> NoTime

\* a value of the provider's Config that is no map
NoRaw == [kind |-> "nil", m |-> <<>>]

\* toString(v) of a map[string]any value: a string or bytes as text, anything
\* else ""
toString(v) == IF v.t \in {"string", "bytes"} THEN v.s ELSE ""

\* parseExpiryMap(cfg): key -> instant, for the entries whose trimmed key and
\* value are not blank and whose value parses; no map at all when none is left
parseExpiryMap(config) ==
    LET first == IF "api-key-expiry" \in DOMAIN config THEN config["api-key-expiry"] ELSE NoRaw
        raw == IF first.kind = "nil"
               THEN (IF "apiKeyExpiry" \in DOMAIN config THEN config["apiKeyExpiry"] ELSE NoRaw)
               ELSE first
        val(k) == IF raw.kind = "strings" THEN TrimSpace(raw.m[k])
                  ELSE TrimSpace(toString(raw.m[k]))
        kept == {k \in DOMAIN raw.m :
                    TrimSpace(k) # "" /\ val(k) # "" /\ ParseRFC3339(val(k)).ok}
    IN
    IF raw.kind \notin {"strings", "anys"} THEN <<>>
    ELSE [key \in {TrimSpace(k) : k \in kept} |->
             ParseRFC3339(val(CHOOSE k \in kept : TrimSpace(k) = key)).t]

\* newProvider(cfg): the configured keys without the empty one, the expiries
\* (the provider's name plays no part in Authenticate's verdict)
newProvider(cfgp) ==
    [keys |-> {cfgp.APIKeys[i] : i \in DOMAIN cfgp.APIKeys} \ {""},
     expiresAt |-> parseExpiryMap(cfgp.Config)]

\* extractBearerToken over the Authorization values the model uses
extractBearerToken(header) ==
    CASE header = "Bearer k-live"  -> "k-live"
      [] header = "bearer  k-old " -> "k-old"
      [] header = "Bearer k-zero"  -> "k-zero"
      [] header = "Bearer nope"    -> "nope"
      [] header = "Basic k-live"   -> "Basic k-live"
      [] OTHER -> header

\* the candidates of a request, in the order Authenticate tries them
authCandidates(r) ==
    << [value |-> extractBearerToken(r.Authorization), source |-> "authorization"],
       [value |-> r.XGoogApiKey, source |-> "x-goog-api-key"],
       [value |-> r.XApiKey, source |-> "x-api-key"],
       [value |-> r.key, source |-> "query-key"],
       [value |-> r.auth_token, source |-> "query-auth-token"] >>

AuthError(e) == [err |-> e, Principal |-> "", source |-> ""]

\* Mutant: a key is good up to and including its expiry instant.
keyExpired_AfterOnly(exp, t) == exp # ZeroTime /\ t > exp

\* !exp.IsZero() && !exp.After(now)
keyExpired(exp, t) == exp # ZeroTime /\ ~(exp > t)

\* provider.Authenticate at instant t
authenticate(p, r, t) ==
    LET cands == authCandidates(r)
        hits == {i \in DOMAIN cands : cands[i].value # "" /\ cands[i].value \in p.keys}
        c == cands[CHOOSE i \in hits : \A j \in hits : i <= j]
    IN
    IF p.keys = {} THEN AuthError("ErrNotHandled")
    ELSE IF /\ r.Authorization = "" /\ r.XGoogApiKey = "" /\ r.XApiKey = ""
            /\ r.key = "" /\ r.auth_token = ""
      THEN AuthError("ErrNoCredentials")
    ELSE IF hits = {} THEN AuthError("ErrInvalidCredential")
    ELSE IF c.value \in DOMAIN p.expiresAt /\ keyExpired(p.expiresAt[c.value], t)
      THEN AuthError("ErrExpiredCredential")
    ELSE [err |-> "", Principal |-> c.value, source |-> c.source]

(***************************************************************************)
(* The prompt-cache session token: cacheHelper                             *)
(***************************************************************************)
MaxUUIDs == 2            \* tokens uuid.New() hands out in one run

codexCacheTTL == 3600    \* time.Now().Add(1 * time.Hour)

\* The instants at which the clock is observed: around the expiry of a token.
CacheInstants == {0, 1, codexCacheTTL - 1, codexCacheTTL, codexCacheTTL + 1}

\* uuid.New().String(): the n-th token handed out
uuidString(n) == "uuid-" \o ToString(n)

\* codexCache{}
NoCache == [ID |-> "", Expire |-> 0]

\* getCodexCache(key) at instant t: the entry under key, unless it has expired
getCodexCache(m, key, t) ==
    IF key \in DOMAIN m /\ ~(m[key].Expire < t)
    THEN [cache |-> m[key], ok |-> TRUE]
    ELSE [cache |-> NoCache, ok |-> FALSE]

\* setCodexCache(key, cache)
setCodexCache(m, key, cache) ==
    [k \in DOMAIN m \cup {key} |-> IF k = key THEN cache ELSE m[k]]

\* fmt.Sprintf("%s-%s", req.Model, userIDResult.String())
cacheKey(model, userID) == model \o "-" \o userID

\* The requests cacheHelper is given: source format, model, and the payload's
\* metadata.user_id and prompt_cache_key (absent or a string).
CachePayload(u, k) == [user_id |-> u, prompt_cache_key |-> k]
CacheInputs ==
    {[from |-> "claude", model |-> m, payload |-> CachePayload(u, NoValue)] :
        m \in {"gpt-5", "gpt-5-codex"}, u \in {NoValue, Str("u1"), Str("codex-u1")}}
    \cup {[from |-> "claude", model |-> "gpt-5", payload |-> CachePayload(Str("u1"), Str("pk-1"))],
          [from |-> "openai-response", model |-> "gpt-5",
           payload |-> CachePayload(Str("u1"), Str("pk-1"))],
          [from |-> "openai-response", model |-> "gpt-5",
           payload |-> CachePayload(Str("u1"), NoValue)],
          [from |-> "openai", model |-> "gpt-5",
           payload |-> CachePayload(Str("u1"), Str("pk-1"))]}
\* The requests of the interleaved calls: one session asked for twice, another
\* session, and a request that brings its own key.
CacheRaceInputs ==
    {[from |-> "claude", model |-> "gpt-5", payload |-> CachePayload(Str("u1"), NoValue)],
     [from |-> "claude", model |-> "gpt-5-codex", payload |-> CachePayload(Str("u1"), NoValue)],
     [from |-> "openai-response", model |-> "gpt-5",
      payload |-> CachePayload(Str("u1"), Str("pk-1"))]}
CacheCallers == {"c1", "c2"}

NoRequest == [url |-> "", prompt_cache_key |-> NoValue, hdrs |-> <<>>]
CacheIdle ==
    [pc |-> "idle", from |-> "", model |-> "", payload |-> [user_id |-> NoValue,
     prompt_cache_key |-> NoValue], key |-> "", cache |-> NoCache, req |-> NoRequest, at |-> 0]

\* cacheHelper is entered: the branch on the source format
CacheStart(c, from, model, payload) ==
    /\ cacheCalls[c].pc \in {"idle", "done"}
    /\ cacheCalls' = [cacheCalls EXCEPT ![c] =
          [CacheIdle EXCEPT
              !.from = from, !.model = model, !.payload = payload,
              !.key = IF from = "claude" /\ payload.user_id.exists
                      THEN cacheKey(model, payload.user_id.s) ELSE "",
              !.cache = IF from = "openai-response" /\ payload.prompt_cache_key.exists
                        THEN [ID |-> payload.prompt_cache_key.s, Expire |-> 0]
                        ELSE NoCache,
              !.pc = IF from = "claude" /\ payload.user_id.exists THEN "lookup" ELSE "build"]]
    /\ UNCHANGED <<permVars, banVars, execVars, helpVars, codexCacheMap, uuids, issued, streamVars>>

\* cache, ok = getCodexCache(key); !ok leads to a new token
cacheLookupStep(q, m, t) ==
    LET res == getCodexCache(m, q.key, t) IN
    IF res.ok THEN [q EXCEPT !.cache = res.cache, !.pc = "build"]
    ELSE [q EXCEPT !.pc = "create"]

CacheLookup(c) ==
    /\ cacheCalls[c].pc = "lookup"
    /\ cacheCalls' = [cacheCalls EXCEPT ![c] = cacheLookupStep(@, codexCacheMap, now)]
    /\ UNCHANGED <<permVars, banVars, execVars, helpVars, codexCacheMap, uuids, issued, streamVars>>

\* cache = codexCache{ID: uuid.New().String(), Expire: time.Now().Add(1 * time.Hour)}
CacheCreate(c) ==
    /\ cacheCalls[c].pc = "create"
    /\ uuids < MaxUUIDs
    /\ uuids' = uuids + 1
    /\ cacheCalls' = [cacheCalls EXCEPT ![c].cache =
                          [ID |-> uuidString(uuids + 1), Expire |-> now + codexCacheTTL],
                                        ![c].pc = "store"]
    /\ UNCHANGED <<permVars, banVars, execVars, helpVars, codexCacheMap, issued, streamVars>>

\* setCodexCache(key, cache)
CacheStore(c) ==
    /\ cacheCalls[c].pc = "store"
    /\ codexCacheMap' = setCodexCache(codexCacheMap, cacheCalls[c].key, cacheCalls[c].cache)
    /\ cacheCalls' = [cacheCalls EXCEPT ![c].pc = "build"]
    /\ UNCHANGED <<permVars, banVars, execVars, helpVars, uuids, issued, streamVars>>

\* the request cacheHelper returns: prompt_cache_key in the body and the two
\* session headers, when there is a token
cacheRequest(url, cache) ==
    IF cache.ID # ""
    THEN [url |-> url, prompt_cache_key |-> Str(cache.ID),
          hdrs |-> ("Conversation_id" :> cache.ID) @@ ("Session_id" :> cache.ID)]
    ELSE [url |-> url, prompt_cache_key |-> NoValue, hdrs |-> <<>>]

CacheBuild(c) ==
    /\ cacheCalls[c].pc = "build"
    /\ cacheCalls' = [cacheCalls EXCEPT ![c].req = cacheRequest(OriginalURL, cacheCalls[c].cache),
                                        ![c].at = now, ![c].pc = "done"]
    /\ issued' = cacheCalls'[c]
    /\ UNCHANGED <<permVars, banVars, execVars, helpVars, codexCacheMap, uuids, streamVars>>

(***************************************************************************)
(* ExecuteStream: the goroutine that feeds the returned channel            *)
(***************************************************************************)
\* no stream has been returned
NoStream ==
    [pc |-> "none", body |-> <<>>, end |-> "eof", pending |-> 0, made |-> 0, got |-> <<>>,
     scanErr |-> FALSE, bodyClosed |-> FALSE, closed |-> FALSE, consumer |-> "receiving",
     cancelled |-> FALSE]

MaxLines == 2    \* lines of an upstream body
MaxChunks == 2   \* chunks TranslateStream makes of one line

\* The upstream bodies: for each line the number of chunks it translates to;
\* after the last line the scanner meets the end of the body or a read error.
StreamBodies == UNION {[1..n -> 0..MaxChunks] : n \in 0..MaxLines}
StreamEnds == {"eof", "err"}

StreamChunk(n, err) == [Payload |-> n, Err |-> err]

\* ExecuteStream has returned the channel and started the goroutine; the
\* consumer is receiving from the unbuffered channel; ctx is not cancelled
StreamStart(body, end) ==
    /\ stream.pc = "none"
    /\ stream' = [NoStream EXCEPT !.pc = "scan", !.body = body, !.end = end]
    /\ UNCHANGED <<permVars, banVars, execVars, helpVars, cacheVars>>

\* Mutant: a scanner error only ends the loop.
afterLoop_ErrorDropped(scanErr) == "closebody"

\* after the scan loop: the error chunk if the scanner failed, else the defers
afterLoop(scanErr) == IF scanErr THEN "senderr" ELSE "closebody"

\* scanner.Scan() returns a line: its chunks are to be sent one by one
StreamScanLine ==
    /\ stream.pc = "scan"
    /\ stream.body # <<>>
    /\ stream' = [stream EXCEPT !.body = Tail(@), !.pending = Head(stream.body),
                                !.pc = IF Head(stream.body) > 0 THEN "send" ELSE "scan"]
    /\ UNCHANGED <<permVars, banVars, execVars, helpVars, cacheVars>>

\* scanner.Scan() returns false at the end of the body or on its read error
StreamScanEnd ==
    /\ stream.pc = "scan"
    /\ stream.body = <<>>
    /\ stream' = [stream EXCEPT !.scanErr = (stream.end = "err"),
                                !.pc = afterLoop(stream.end = "err")]
    /\ UNCHANGED <<permVars, banVars, execVars, helpVars, cacheVars>>

\* scanner.Scan() returns false because the read fails once ctx is cancelled
StreamScanCancelled ==
    /\ stream.pc = "scan"
    /\ stream.cancelled
    /\ stream' = [stream EXCEPT !.scanErr = TRUE, !.pc = afterLoop(TRUE)]
    /\ UNCHANGED <<permVars, banVars, execVars, helpVars, cacheVars>>

\* out <- StreamChunk{Payload}: completes when the consumer receives
StreamSend ==
    /\ stream.pc = "send"
    /\ stream.consumer = "receiving"
    /\ stream' = [stream EXCEPT !.got = Append(@, StreamChunk(stream.made + 1, FALSE)),
                                !.made = @ + 1, !.pending = @ - 1,
                                !.pc = IF stream.pending > 1 THEN "send" ELSE "scan"]
    /\ UNCHANGED <<permVars, banVars, execVars, helpVars, cacheVars>>

\* out <- StreamChunk{Err: errScan}: completes when the consumer receives
StreamSendErr ==
    /\ stream.pc = "senderr"
    /\ stream.consumer = "receiving"
    /\ stream' = [stream EXCEPT !.got = Append(@, StreamChunk(0, TRUE)), !.pc = "closebody"]
    /\ UNCHANGED <<permVars, banVars, execVars, helpVars, cacheVars>>

\* the deferred httpResp.Body.Close(), run first
StreamCloseBody ==
    /\ stream.pc = "closebody"
    /\ stream' = [stream EXCEPT !.bodyClosed = TRUE, !.pc = "closeout"]
    /\ UNCHANGED <<permVars, banVars, execVars, helpVars, cacheVars>>

\* the deferred close(out), run last; the goroutine has returned
StreamCloseOut ==
    /\ stream.pc = "closeout"
    /\ stream' = [stream EXCEPT !.closed = TRUE, !.pc = "returned"]
    /\ UNCHANGED <<permVars, banVars, execVars, helpVars, cacheVars>>

\* the consumer stops receiving from the channel
ConsumerStop ==
    /\ stream.pc \notin {"none", "returned"}
    /\ stream.consumer = "receiving"
    /\ stream' = [stream EXCEPT !.consumer = "stopped"]
    /\ UNCHANGED <<permVars, banVars, execVars, helpVars, cacheVars>>

\* the caller cancels ctx
StreamCancel ==
    /\ stream.pc \notin {"none", "returned"}
    /\ ~stream.cancelled
    /\ stream' = [stream EXCEPT !.cancelled = TRUE]
    /\ UNCHANGED <<permVars, banVars, execVars, helpVars, cacheVars>>

\* a step of the goroutine
StreamGoroutine ==
    \/ StreamScanLine \/ StreamScanEnd \/ StreamScanCancelled
    \/ StreamSend \/ StreamSendErr \/ StreamCloseBody \/ StreamCloseOut

(***************************************************************************)
(* Specifications                                                          *)
(***************************************************************************)
Init ==
    /\ auths = <<>>
    /\ authStatus = [id \in AuthIDs |-> "unregistered"]
    /\ apiKeyAuth = <<>>
    /\ lastOp = NoOp
    /\ now = 0
    /\ bannedTill = <<>>
    /\ banCalls = [c \in Callers |-> NoCall]
    /\ lastRead = NoRead
    /\ cfg = NoConfig
    /\ reqs = <<>>
    /\ lastCall = NoHelperCall
    /\ codexCacheMap = <<>>
    /\ cacheCalls = <<>>
    /\ uuids = 0
    /\ issued = {}
    /\ stream = NoStream

NextPerm ==
    \/ \E id \in AuthIDs, st \in Statuses : Register(id, st)
    \/ \E id \in AuthIDs, st \in Statuses : MarkStatus(id, st)
    \/ \E k \in CfgKeys : \E refs \in RefLists(k) : SetConfigKey(k, refs)
    \/ \E k \in CfgKeys : SetConfigDropKey(k)
    \/ \E id \in AuthIDs : CleanupAuthMappings(id)
    \/ \E k \in KeyInputs, p \in Providers : ManagerExecute(k, p)
    \/ \E k \in KeyInputs : ResolveAllowed(k)

NextBan ==
    \/ \E t \in Instants : Tick(t)
    \/ \E c \in Callers, id \in ProxyIDInputs : BanBegin(c, id)
    \/ \E c \in Callers : BanCommit(c)
    \/ \E c \in Callers, id \in ProxyIDInputs : ReadBegin(c, id)
    \/ \E c \in Callers : ReadCommit(c)
    \/ \E c \in Callers, id \in ProxyIDInputs : ReadBlank(c, id)

InitExec ==
    /\ auths = <<>>
    /\ authStatus = [id \in AuthIDs |-> "unregistered"]
    /\ apiKeyAuth = <<>>
    /\ lastOp = NoOp
    /\ now = 0
    /\ bannedTill = <<>>
    /\ banCalls = [c \in Callers |-> NoCall]
    /\ lastRead = NoRead
    /\ cfg \in ExecConfigs
    /\ reqs = [r \in Reqs |-> ReqIdle]
    /\ lastCall = NoHelperCall
    /\ codexCacheMap = <<>>
    /\ cacheCalls = <<>>
    /\ uuids = 0
    /\ issued = {}
    /\ stream = NoStream

NextExec ==
    \/ \E t \in Instants : Tick(t)
    \/ \E r \in Reqs, m \in Modes, a \in ExecAuths, k \in ExecKeys : ExecStart(r, m, a, k)
    \/ \E r \in Reqs : ExecPick(r)
    \/ \E r \in Reqs : ExecLock(r)
    \/ \E r \in Reqs : ExecResolve(r)
    \/ \E r \in Reqs : ExecBuild1(r)
    \/ \E r \in Reqs : ExecSend1(r)
    \/ \E r \in Reqs, o \in Outcomes : ExecReceive1(r, o)
    \/ \E r \in Reqs : ExecBan(r)
    \/ \E r \in Reqs : ExecBuild2(r)
    \/ \E r \in Reqs : ExecSend2(r)
    \/ \E r \in Reqs, o \in Outcomes : ExecReceive2(r, o)
    \/ \E r \in Reqs, uo \in UsageOutcomes : ExecUsage(r, uo)

\* the credential manager with its access resolver
SpecPerm == Init /\ [][NextPerm]_vars

\* the ban state with concurrent callers and a clock
SpecBan == Init /\ [][NextBan]_vars

\* What the sends of the calls end in while the configuration is replaced
\* under them.
SnapOutcomes == {o \in Outcomes : o.kind = "resp" /\ o.status \in {200, 404} /\ o.readOK}

NextSnap ==
    \/ \E r \in Reqs, m \in Modes, a \in ExecAuths, k \in ExecKeys : ExecStart(r, m, a, k)
    \/ \E c \in ExecConfigs : ReplaceConfig(c)
    \/ \E r \in Reqs : ExecPick(r)
    \/ \E r \in Reqs : ExecLock(r)
    \/ \E r \in Reqs : ExecResolve(r)
    \/ \E r \in Reqs : ExecBuild1(r)
    \/ \E r \in Reqs : ExecSend1(r)
    \/ \E r \in Reqs, o \in SnapOutcomes : ExecReceive1(r, o)
    \/ \E r \in Reqs : ExecBan(r)
    \/ \E r \in Reqs : ExecBuild2(r)
    \/ \E r \in Reqs : ExecSend2(r)
    \/ \E r \in Reqs, o \in SnapOutcomes : ExecReceive2(r, o)

NextDirect ==
    \/ \E r \in Reqs, m \in Modes, a \in ExecAuths, k \in ExecKeys : ExecStart(r, m, a, k)
    \/ \E r \in Reqs : ExecPick(r)
    \/ \E r \in Reqs : ExecLock(r)
    \/ \E r \in Reqs : ExecResolve(r)
    \/ \E r \in Reqs : ExecBuild1(r)
    \/ \E r \in Reqs : ExecSend1(r)
    \/ \E r \in Reqs, o \in SnapOutcomes : ExecReceive1(r, o)
    \/ \E r \in Reqs : ExecBan(r)
    \/ \E r \in Reqs : ExecBuild2(r)
    \/ \E r \in Reqs : ExecSend2(r)
    \/ \E r \in Reqs, o \in SnapOutcomes : ExecReceive2(r, o)
    \/ \E r \in Reqs, a \in ExecAuths : CompactBuild(r, a)
    \/ \E r \in Reqs : CompactSend(r)
    \/ \E r \in Reqs, o \in SnapOutcomes : CompactReceive(r, o)
    \/ \E r \in Reqs, a \in ExecAuths, h \in CallerHeaders : PrepareRequest(r, a, h)
    \/ \E r \in Reqs, a \in ExecAuths, h \in CallerHeaders, o \in SnapOutcomes :
          HttpRequest(r, a, h, o)

\* every entry point of the Codex executor, one call at a time, the clock still
SpecDirect == InitExec /\ [][NextDirect]_vars

\* the Codex executor while the configuration is replaced concurrently
SpecSnap == InitExec /\ [][NextSnap]_vars

\* the Codex executor: calls of Execute and ExecuteStream, the ban state, a clock
SpecExec == InitExec /\ [][NextExec]_vars

(***************************************************************************)
(* Calls of the proxy helpers, one at a time, over a set of configurations *)
(***************************************************************************)
Proxy4 == [ID |-> "deno-4", BaseURL |-> "https://BRIDGE.example", Enabled |-> TRUE,
           Headers |-> [k \in {" X-Worker-Token ", "x-empty", "  "} |->
                           IF k = " X-Worker-Token " THEN "bridge-secret"
                           ELSE IF k = "x-empty" THEN "  " ELSE "stray"]]

BridgedConfig ==
    [ProxyRouting |-> [p \in {"codex", "gemini", "antigravity"} |->
                          IF p = "codex" THEN "deno-4"
                          ELSE IF p = "gemini" THEN " deno-1 " ELSE "deno-2"],
     ProxyRoutingAuth |-> [ref \in {"auth-a", "auth-a.json", "idx-b", "auth-c"} |->
                              IF ref = "auth-a" THEN "  "
                              ELSE IF ref = "auth-a.json" THEN "deno-1"
                              ELSE IF ref = "idx-b" THEN " deno-2 " ELSE "deno-9"],
     ReverseProxies |-> <<Proxy1, Proxy2, Proxy4>>,
     ReverseProxyWorkerURL |-> " https://bridge.example/ ", APIKeyAuth |-> <<>>]

PlainConfig ==
    [ProxyRouting |-> [p \in {"codex", "antigravity"} |-> "deno-2"],
     ProxyRoutingAuth |-> <<>>,
     ReverseProxies |-> <<Proxy3, Proxy2>>, ReverseProxyWorkerURL |-> "", APIKeyAuth |-> <<>>]

\* the credential-level entry of auth-c names a disabled proxy, the one of
\* auth-d's file a proxy that is not in the list; the provider's proxy is usable
ShadowConfig ==
    [ProxyRouting |-> [p \in {"codex"} |-> "deno-1"],
     ProxyRoutingAuth |-> [ref \in {"auth-c", "codex-d.json"} |->
                              IF ref = "auth-c" THEN "deno-3" ELSE "deno-9"],
     ReverseProxies |-> <<Proxy1, Proxy3>>, ReverseProxyWorkerURL |-> "", APIKeyAuth |-> <<>>]

RouteConfigs == ExecConfigs \cup {BridgedConfig, PlainConfig, ShadowConfig}
RouteAuths == {"auth-a", "auth-b", "auth-c", "auth-d", NilAuth}

AntigravityURL == [base |-> "https://daily-cloudcode-pa.googleapis.com",
                   path |-> "/v1internal:streamGenerateContent", query |-> "alt=sse"]
GeminiURL == [base |-> "https://generativelanguage.googleapis.com",
              path |-> "/v1beta/models", query |-> "key=k&page=%2F"]
SandboxURL == [base |-> "https://daily-cloudcode-pa.sandbox.googleapis.com",
               path |-> "/v1internal:generateContent", query |-> ""]
\* the calls the executors make: a provider with the URL it builds
RouteCalls == { <<"codex", OriginalURL>>, <<"antigravity", AntigravityURL>>,
               <<"antigravity", SandboxURL>>, <<"gemini", GeminiURL>> }

\* the ban entry a call finds for a proxy ID, NoBan when there is none
BanEntry(rawID) ==
    IF TrimSpace(rawID) \in DOMAIN bannedTill THEN bannedTill[TrimSpace(rawID)] ELSE NoBan

\* resolveReverseProxyRouteForAuth(cfg, auth, provider, originalURL)
ResolveRoute(authID, provider, originalURL) ==
    LET c == cfg
        pid == RouteProxyID(c, authID, provider)
        chk == BanCheck(pid)
    IN
    /\ bannedTill' = chk.bt
    /\ lastCall' = [fn |-> "resolveRoute", cfg |-> c, auth |-> authID, provider |-> provider,
                    url |-> originalURL, at |-> now, entry |-> BanEntry(pid),
                    route |-> resolveReverseProxyRouteWithID(c, pid, provider, originalURL,
                                                             chk.banned)]
    /\ UNCHANGED <<permVars, now, banCalls, lastRead, execVars, cacheVars, streamVars>>

\* the headers a request carries when the helper is called (canonical names)
RouteHeaders ==
    { [k \in {"Content-Type", "Authorization"} |->
          IF k = "Content-Type" THEN "application/json" ELSE "Bearer sk-c"],
      [k \in {"Authorization", "X-Worker-Token"} |->
          IF k = "Authorization" THEN "Bearer sk-c" ELSE "callers-own"],
      [k \in {"X-Worker-Token", "X-Empty"} |-> ""] }
HeaderProviders == {"codex", "gemini"}

\* applyReverseProxyHeaders(req, cfg, auth, provider)
ApplyHeaders(hdrs, authID, provider) ==
    LET chk == HeaderBanCheck(cfg, authID, provider) IN
    /\ bannedTill' = chk.bt
    /\ lastCall' = [fn |-> "applyHeaders", cfg |-> cfg, auth |-> authID, provider |-> provider,
                    at |-> now, entry |-> BanEntry(RouteProxyID(cfg, authID, provider)),
                    before |-> hdrs,
                    after |-> applyReverseProxyHeaders(hdrs, cfg, authID, provider, chk.banned)]
    /\ UNCHANGED <<permVars, now, banCalls, lastRead, execVars, cacheVars, streamVars>>

\* banReverseProxyTemporarily(proxyID, ...), by one caller
RouteBan(rawID) ==
    /\ TrimSpace(rawID) # ""
    /\ bannedTill' = banStore(bannedTill, TrimSpace(rawID), now + reverseProxyBanTTL)
    /\ lastCall' = [fn |-> "ban", id |-> TrimSpace(rawID), at |-> now]
    /\ UNCHANGED <<permVars, now, banCalls, lastRead, execVars, cacheVars, streamVars>>

NextRoute ==
    \/ \E t \in Instants : Tick(t)
    \/ \E id \in RouteBanIDs : RouteBan(id)
    \/ \E a \in RouteAuths, pu \in RouteCalls : ResolveRoute(a, pu[1], pu[2])
    \/ \E h \in RouteHeaders, a \in RouteAuths, p \in HeaderProviders : ApplyHeaders(h, a, p)

InitRoute ==
    /\ auths = <<>>
    /\ authStatus = [id \in AuthIDs |-> "unregistered"]
    /\ apiKeyAuth = <<>>
    /\ lastOp = NoOp
    /\ now = 0
    /\ bannedTill = <<>>
    /\ banCalls = [c \in Callers |-> NoCall]
    /\ lastRead = NoRead
    /\ cfg \in RouteConfigs
    /\ reqs = <<>>
    /\ lastCall = NoHelperCall
    /\ codexCacheMap = <<>>
    /\ cacheCalls = <<>>
    /\ uuids = 0
    /\ issued = {}
    /\ stream = NoStream

\* the proxy helpers called one at a time, with the ban state and a clock
SpecRoute == InitRoute /\ [][NextRoute]_vars

(***************************************************************************)
(* Calls of the pure helpers of the executor                               *)
(***************************************************************************)
BanStatusInputs == {200, 400, 404, 429, 500, 502, 503, 504, 520, 521, 522, 523, 524, 525}
BanBodyInputs ==
    {"", "  ", "invalid model", "Invalid Model", "status 404", "STATUS 404",
     "upstream status 404", " Request Detail: 500 ", "U+8BF7 U+6C42 U+8BE6 U+60C5",
     "POST /v1/v1/messages failed", "{\"status\":404}", "status404", "rate limited"}

\* shouldBanReverseProxyOnError(statusCode, errMsg)
ShouldBan(statusCode, errMsg) ==
    /\ lastCall' = [fn |-> "shouldBan", status |-> statusCode, body |-> errMsg,
                    result |-> shouldBanReverseProxyOnError(statusCode, errMsg)]
    /\ UNCHANGED <<permVars, banVars, execVars, cacheVars, streamVars>>

\* codexQuotaRecoverAt(payload, now)
RecoverAt(payload) ==
    /\ lastCall' = [fn |-> "recoverAt", payload |-> payload, at |-> now,
                    result |-> codexQuotaRecoverAt(payload, now)]
    /\ UNCHANGED <<permVars, banVars, execVars, cacheVars, streamVars>>

\* The response headers parseRetryAfterHeader is given.
RetryAfterValues ==
    {"", "  ", "120", " 120 ", "+30", "0", "-5", "soon", "1.5",
     "Thu, 01 Jan 1970 00:00:01 GMT", "Thu, 01 Jan 1970 00:05:00 GMT",
     "Thursday, 01-Jan-70 00:05:30 GMT"}
RetryAfterHeaders ==
    {<<>>, "Content-Type" :> "application/json"}
    \cup {"Retry-After" :> v : v \in RetryAfterValues}

\* parseRetryAfterHeader(headers)
ParseRetryAfter(headers) ==
    /\ lastCall' = [fn |-> "parseRetryAfter", headers |-> headers, at |-> now,
                    result |-> parseRetryAfterHeader(headers, now)]
    /\ UNCHANGED <<permVars, banVars, execVars, cacheVars, streamVars>>

\* The permission mappings and the client keys allowedAuthRefsForClientKey is
\* given.
PermMappings ==
    { <<>>,
      "client-1" :> <<"auth-a">>,
      "" :> <<"auth-a">>,
      ("" :> <<"auth-a">>) @@ ("  " :> <<"auth-b">>) @@ ("client-1" :> <<>>) }
PermKeys == {"", " ", "  ", "client-1", " client-1 ", "client-2"}

\* m.allowedAuthRefsForClientKey(clientKey), the configuration holding cfgAuth
AllowedRefs(cfgAuth, clientKey) ==
    /\ lastCall' = [fn |-> "allowedRefs", cfgAuth |-> cfgAuth, key |-> clientKey,
                    result |-> allowedAuthRefsForClientKey(cfgAuth, clientKey)]
    /\ UNCHANGED <<permVars, banVars, execVars, cacheVars, streamVars>>

\* The credentials authIndexForMatch is given: every field blank or set.
IndexAuths ==
    {[ID |-> id, Index |-> idx, FileName |-> fn, api_key |-> k] :
        id \in {"", "auth-a", "auth-b"}, idx \in {"", "  ", " idx-b "},
        fn \in {"", "auth-a.json"}, k \in {"", "sk-c"}}

\* authIndexForMatch(auth)
IndexForMatch(auth) ==
    /\ lastCall' = [fn |-> "authIndex", auth |-> auth, result |-> authIndexForMatch(auth)]
    /\ UNCHANGED <<permVars, banVars, execVars, cacheVars, streamVars>>

\* The mappings and the configured client keys the sanitizer is given: the
\* two inputs of the configuration tests, and mappings with padded, repeated
\* and blank references.
SanitizeMappings ==
    { <<>>,
      ("key-1" :> <<"auth-a", "auth-a", "  ">>) @@ ("key-2" :> <<"auth-b">>)
          @@ ("junk" :> <<"[object Object]">>),
      ("1" :> <<"codex-a.json">>) @@ ("api-keys" :> <<"1", "2">>)
          @@ ("proxy-routing" :> <<"[object Object]">>) @@ ("request-retry" :> <<"3">>)
          @@ ("unknown-client" :> <<"auth-x">>),
      ("key-1" :> <<" auth-a ", "auth-b", "auth-a", "", "auth-b">>) @@ ("key-2" :> <<"  ", "">>)
          @@ ("key-3" :> <<>>) }
SanitizeKeys == {<<>>, <<"key-1", "key-2">>, <<"1">>, <<"key-2", "key-3", "key-2">>}

\* config.NormalizeAPIKeyAuthForKnownKeys(in, apiKeys), which
\* Config.SanitizeAPIKeyAuth applies to the configuration's own key list
Sanitize(in, apiKeys) ==
    /\ lastCall' = [fn |-> "sanitize", in |-> in, keys |-> apiKeys,
                    result |-> NormalizeAPIKeyAuthForKnownKeys(in, apiKeys)]
    /\ UNCHANGED <<permVars, banVars, execVars, cacheVars, streamVars>>

\* The access providers' configurations: the keys and the expiry map under
\* either of its two names, as strings or as values of any type.
ExpiryStrings ==
    [kind |-> "strings",
     m |-> ("k-live" :> "1970-01-01T00:05:00Z") @@ (" k-old " :> " 1970-01-01T00:00:01Z ")
           @@ ("k-zero" :> "0001-01-01T00:00:00Z") @@ ("k-bad" :> "tomorrow")
           @@ ("k-blank" :> "  ") @@ ("  " :> "1970-01-01T00:00:00Z")]
ExpiryAnys ==
    [kind |-> "anys",
     m |-> ("k-live" :> [t |-> "string", s |-> "1970-01-01T00:00:00Z"])
           @@ ("k-old" :> [t |-> "int", s |-> ""])
           @@ ("k-zero" :> [t |-> "bytes", s |-> "1970-01-01T00:05:01Z"])]
AccessConfigs ==
    {[Name |-> "", APIKeys |-> <<>>, Config |-> <<>>],
     [Name |-> "", APIKeys |-> <<"k-live", "", "k-old">>, Config |-> <<>>],
     [Name |-> "keys", APIKeys |-> <<"k-live", "k-old", "k-zero", "k-bad", "k-blank", "k-plain">>,
      Config |-> ("api-key-expiry" :> ExpiryStrings)],
     [Name |-> "keys", APIKeys |-> <<"k-live", "k-old">>,
      Config |-> ("api-key-expiry" :> NoRaw) @@ ("apiKeyExpiry" :> ExpiryAnys)],
     [Name |-> "keys", APIKeys |-> <<"k-live">>,
      Config |-> ("api-key-expiry" :> [kind |-> "list", m |-> <<>>])]}

\* The requests: what the five places a key can be presented in hold.
NoKeys == [Authorization |-> "", XGoogApiKey |-> "", XApiKey |-> "", key |-> "", auth_token |-> ""]
AccessRequests ==
    {NoKeys}
    \cup {[NoKeys EXCEPT !.Authorization = a] :
             a \in {"Bearer k-live", "bearer  k-old ", "Bearer k-zero", "Bearer nope",
                    "Basic k-live"}}
    \cup {[NoKeys EXCEPT !.XGoogApiKey = "k-plain"], [NoKeys EXCEPT !.XApiKey = "k-old"],
          [NoKeys EXCEPT !.XApiKey = "k-bad"], [NoKeys EXCEPT !.key = "k-blank"],
          [NoKeys EXCEPT !.auth_token = "k-live"]}
    \cup {[NoKeys EXCEPT !.Authorization = "Bearer k-live", !.XApiKey = "k-old"],
          [NoKeys EXCEPT !.Authorization = "Bearer nope", !.XApiKey = "k-old"],
          [NoKeys EXCEPT !.Authorization = "bearer  k-old ", !.XGoogApiKey = "k-plain"]}

\* provider.Authenticate(ctx, r) of the provider built from cfgp
Authenticate(cfgp, r) ==
    /\ lastCall' = [fn |-> "authenticate", provider |-> newProvider(cfgp), req |-> r, at |-> now,
                    result |-> authenticate(newProvider(cfgp), r, now)]
    /\ UNCHANGED <<permVars, banVars, execVars, cacheVars, streamVars>>

NextPure ==
    \/ \E t \in Instants : Tick(t)
    \/ \E st \in BanStatusInputs, b \in BanBodyInputs : ShouldBan(st, b)
    \/ \E pl \in Payloads : RecoverAt(pl)
    \/ \E h \in RetryAfterHeaders : ParseRetryAfter(h)
    \/ \E m \in PermMappings, k \in PermKeys : AllowedRefs(m, k)
    \/ \E a \in IndexAuths : IndexForMatch(a)
    \/ \E m \in SanitizeMappings, ks \in SanitizeKeys : Sanitize(m, ks)
    \/ \E c \in AccessConfigs, r \in AccessRequests : Authenticate(c, r)

\* the pure helpers called one at a time, with a clock
SpecPure == Init /\ [][NextPure]_vars

(***************************************************************************)
(* One stream: its goroutine, its consumer and the caller's context        *)
(***************************************************************************)
NextStream ==
    \/ \E b \in StreamBodies, e \in StreamEnds : StreamStart(b, e)
    \/ StreamScanLine
    \/ StreamScanEnd
    \/ StreamScanCancelled
    \/ StreamSend
    \/ StreamSendErr
    \/ StreamCloseBody
    \/ StreamCloseOut
    \/ ConsumerStop
    \/ StreamCancel

\* the goroutine is scheduled whenever it can take a step: a runnable goroutine
\* runs, a read of the body returns, and a send to a receiving consumer
\* completes
SpecStream == Init /\ [][NextStream]_vars /\ WF_vars(StreamGoroutine)

(***************************************************************************)
(* cacheHelper calls: one at a time, and interleaved                       *)
(***************************************************************************)
InitCache ==
    /\ auths = <<>>
    /\ authStatus = [id \in AuthIDs |-> "unregistered"]
    /\ apiKeyAuth = <<>>
    /\ lastOp = NoOp
    /\ now = 0
    /\ bannedTill = <<>>
    /\ banCalls = [c \in Callers |-> NoCall]
    /\ lastRead = NoRead
    /\ cfg = NoConfig
    /\ reqs = <<>>
    /\ lastCall = NoHelperCall
    /\ codexCacheMap = <<>>
    /\ cacheCalls = [c \in CacheCallers |-> CacheIdle]
    /\ uuids = 0
    /\ issued = CacheIdle
    /\ stream = NoStream

NextSession ==
    \/ \E t \in CacheInstants : Tick(t)
    \/ \E i \in CacheInputs : CacheStart("c1", i.from, i.model, i.payload)
    \/ CacheLookup("c1")
    \/ CacheCreate("c1")
    \/ CacheStore("c1")
    \/ CacheBuild("c1")

NextCache ==
    \/ \E t \in CacheInstants : Tick(t)
    \/ \E c \in CacheCallers, i \in CacheRaceInputs : CacheStart(c, i.from, i.model, i.payload)
    \/ \E c \in CacheCallers : CacheLookup(c)
    \/ \E c \in CacheCallers : CacheCreate(c)
    \/ \E c \in CacheCallers : CacheStore(c)
    \/ \E c \in CacheCallers : CacheBuild(c)

\* one caller: every cacheHelper call ends before the next begins
SpecSession == InitCache /\ [][NextSession]_vars

\* two callers: the steps of two cacheHelper calls interleave
SpecCache == InitCache /\ [][NextCache]_vars

(***************************************************************************)
(* Properties of the access resolver and the credential manager            *)
(***************************************************************************)
IsCall == lastOp.op \in {"Execute", "Resolve"}
IsExecute == lastOp.op = "Execute"
OpKey == TrimSpace(lastOp.key)
KeyListed == OpKey \in DOMAIN apiKeyAuth
\* the trimmed, non-blank references the mapping lists for the key of the last call
OpRefs == {TrimSpace(r) : r \in SeqRange(apiKeyAuth[OpKey])} \ {""}
Registered == SeqRange(auths)

\* C1: a request whose client key is listed in api-key-auth with an empty
\* reference list fails with 403 and reaches no executor, whatever credentials
\* are registered.
C1_DenyAllIsForbidden ==
    (IsExecute /\ KeyListed /\ apiKeyAuth[OpKey] = <<>>)
        => (lastOp.status = StatusForbidden /\ ~lastOp.invoked)

C1_Witness ==
    /\ IsExecute /\ KeyListed /\ apiKeyAuth[OpKey] = <<>>
    /\ \E id \in Registered : AuthOf(id).Provider = lastOp.provider /\ authStatus[id] = StatusActive
    /\ lastOp.status = StatusForbidden

\* C2: a request whose client key is listed with a non-empty reference list is
\* dispatched only to a credential whose ID, Index or FileName is one of the
\* listed references.
C2_DispatchOnlyToListed ==
    (IsExecute /\ KeyListed /\ apiKeyAuth[OpKey] # <<>> /\ lastOp.invoked)
        => /\ lastOp.usedAuth \in Registered
           /\ AuthRefs(lastOp.usedAuth) \cap OpRefs # {}

\* auth-b is listed, auth-a is Active for the same provider and registered first
C2_Witness ==
    /\ IsExecute /\ KeyListed /\ lastOp.invoked
    /\ lastOp.usedAuth = "auth-b"
    /\ auths = <<"auth-a", "auth-b">>
    /\ authStatus["auth-a"] = StatusActive

\* C3: for a client key that is not in api-key-auth the resolver answers
\* restricted = false with a nil set, whatever credentials are registered.
C3_AbsentKeyUnrestricted ==
    (IsCall /\ ~KeyListed) => (~lastOp.restricted /\ lastOp.isNil)

C3_Witness ==
    /\ lastOp.op = "Resolve" /\ OpKey # "" /\ ~KeyListed
    /\ DOMAIN apiKeyAuth # {}
    /\ \E id \in Registered : authStatus[id] # StatusActive
    /\ ~lastOp.restricted

\* C4: a listed reference matches a credential by ID, by Index (explicit or
\* derived) or by FileName: every registered credential one of whose three
\* references is listed is in the allowed set, and when the one listed
\* reference is the Index (not the ID) of an Active credential of the
\* requested provider, that credential is the one dispatched to.
C4_MultiKeyMatch ==
    /\ (IsCall /\ KeyListed) =>
         \A x \in Registered : (AuthRefs(x) \cap OpRefs # {}) => x \in lastOp.allowed
    /\ (IsExecute /\ KeyListed) =>
         \A x \in Registered :
            ( /\ OpRefs = {authIndexForMatch(AuthOf(x))}
              /\ authIndexForMatch(AuthOf(x)) # AuthOf(x).ID
              /\ authStatus[x] = StatusActive
              /\ AuthOf(x).Provider = lastOp.provider )
            => (lastOp.invoked /\ lastOp.usedAuth = x)

\* the derived Index of auth-c is listed, and auth-c is dispatched to
C4_Witness ==
    /\ IsExecute /\ KeyListed
    /\ OpRefs = {"h(api_key:sk-c)"}
    /\ lastOp.invoked /\ lastOp.usedAuth = "auth-c"

\* C5: cleanupAuthMappings keeps every client key in api-key-auth; each key
\* keeps its other references, a key whose last reference is removed stays
\* listed with an empty list, and no key resolves to more than before.
C5_CleanupKeepsKeys ==
    (lastOp.op = "Cleanup") =>
        /\ DOMAIN apiKeyAuth = DOMAIN lastOp.before
        /\ \A k \in DOMAIN lastOp.before :
              LET was == AllowedAuthIDsForClientKey(lastOp.before, auths, k)
                  is  == AllowedAuthIDsForClientKey(apiKeyAuth, auths, k)
              IN /\ SeqRange(apiKeyAuth[k]) = {r \in SeqRange(lastOp.before[k]) : TrimSpace(r) \notin lastOp.targets}
                 /\ is.restricted
                 /\ is.allowed \subseteq was.allowed

\* the only reference of client-1 is removed: the key stays, with an empty list
C5_Witness ==
    /\ lastOp.op = "Cleanup"
    /\ "client-1" \in DOMAIN lastOp.before
    /\ lastOp.before["client-1"] = <<"auth-a.json">>
    /\ "client-1" \in DOMAIN apiKeyAuth
    /\ apiKeyAuth["client-1"] = <<>>

\* C6: when a client key is listed with references none of which matches a
\* registered credential, the resolver answers (empty set, restricted) and a
\* request with that key fails with 403 without reaching an executor.
C6_NoMatchIsForbidden ==
    (IsCall /\ KeyListed /\ apiKeyAuth[OpKey] # <<>>
       /\ \A x \in Registered : AuthRefs(x) \cap OpRefs = {})
        => /\ lastOp.restricted /\ ~lastOp.isNil /\ lastOp.allowed = {}
           /\ IsExecute => (lastOp.status = StatusForbidden /\ ~lastOp.invoked)

C6_Witness ==
    /\ IsExecute /\ KeyListed /\ apiKeyAuth[OpKey] = <<"ghost">>
    /\ \E id \in Registered : AuthOf(id).Provider = lastOp.provider /\ authStatus[id] = StatusActive
    /\ lastOp.status = StatusForbidden

(***************************************************************************)
(* Properties of the Codex executor's proxied call                         *)
(***************************************************************************)
\* the first send went through a reverse proxy and came back with a non-2xx
\* response (its body read) that trips the breaker
Qualifies(q) ==
    /\ q.first.kind = "resp"
    /\ ~Is2xx(q.first.status)
    /\ (q.mode = "ExecuteStream" => q.first.readOK)
    /\ q.route.Proxied
    /\ shouldBanReverseProxyOnError(q.first.status, q.first.body)

\* the retry came back with a response whose body was read
RetryAnswered(q) ==
    /\ q.resp.kind = "resp"
    /\ (q.mode = "ExecuteStream" /\ ~Is2xx(q.resp.status)) => q.resp.readOK

\* C7: in Execute and ExecuteStream, when the first call went through a
\* reverse proxy and its non-2xx response trips the breaker, the proxy is
\* banned, then exactly one more request is sent, to the original URL; a 2xx
\* retry lets the call go on as a success, a non-2xx retry's status and body
\* are what the caller gets.
C7_BanThenRetryDirectOnce ==
    \A r \in DOMAIN reqs :
        LET q == reqs[r] IN
        /\ Len(q.sent) <= 2
        /\ (q.pc = "build2") =>
              /\ Qualifies(q)
              /\ Len(q.sent) = 1
              /\ TrimSpace(q.route.ProxyID) \in DOMAIN bannedTill
        /\ (q.pc = "done" /\ Qualifies(q)) =>
              /\ Len(q.sent) = 2
              /\ q.sent[1].url = q.route.URL
              /\ q.sent[1].url # OriginalURL
              /\ q.sent[2].url = OriginalURL
              /\ (RetryAnswered(q) /\ Is2xx(q.resp.status)) => q.result = ResultOK
              /\ (RetryAnswered(q) /\ ~Is2xx(q.resp.status)) =>
                    /\ q.result.kind = "statusErr"
                    /\ q.result.code = q.resp.status
                    /\ q.result.msg = q.resp.body

\* an ExecuteStream call whose proxied send got a 404 and whose retry got a 400
C7_Witness ==
    \E r \in DOMAIN reqs :
        /\ reqs[r].pc = "done" /\ Qualifies(reqs[r])
        /\ reqs[r].mode = "ExecuteStream"
        /\ reqs[r].first.status = 404
        /\ reqs[r].resp.status = 400 /\ reqs[r].resp.readOK
        /\ reqs[r].result = newCodexStatusErr(400, "invalid model", <<>>, now)

\* the call has got past its banReverseProxyTemporarily
PastBan(q) == q.pc \in {"build2", "send2", "wait2"} \/ Len(q.sent) = 2

\* C12: the ban of a qualifying proxied failure is written before the direct
\* retry is sent and is kept whatever the retry ends in: once the call is past
\* its ban the entry is there until its TTL runs out, no step removes or lowers
\* an entry that has not run out, and a call that resolves the proxy while its
\* entry has not run out is routed direct.
C12_BanRecordedUnconditionally ==
    /\ [](\A r \in DOMAIN reqs :
            LET q == reqs[r]
                id == TrimSpace(q.route.ProxyID)
            IN PastBan(q) =>
                 /\ q.banAt # NoBan
                 /\ \/ id \in DOMAIN bannedTill /\ bannedTill[id] >= q.banAt + reverseProxyBanTTL
                    \/ now > q.banAt + reverseProxyBanTTL)
    /\ [][ /\ \A id \in DOMAIN bannedTill :
                 (id \notin DOMAIN bannedTill' \/ bannedTill'[id] < bannedTill[id])
                     => now > bannedTill[id]
           /\ \A r \in DOMAIN reqs :
                 LET pid == TrimSpace(RouteProxyID(execCfg(reqs[r]), reqs[r].auth, "codex")) IN
                 ( /\ reqs[r].pc = "resolve" /\ reqs'[r].pc = "build1"
                   /\ pid \in DOMAIN bannedTill /\ now < bannedTill[pid] )
                 => reqs'[r].route = [URL |-> OriginalURL, ProxyID |-> pid, Proxied |-> FALSE]
           /\ \A r \in DOMAIN reqs :
                 (Len(reqs[r].sent) = 1 /\ Len(reqs'[r].sent) = 2) =>
                     /\ reqs[r].banAt # NoBan
                     /\ reqs[r].banAt <= now
         ]_vars

\* the retry ended in a transport error (or a cancellation): the ban is still there
C12_Witness ==
    \E r \in DOMAIN reqs :
        /\ reqs[r].pc = "done" /\ Qualifies(reqs[r])
        /\ Len(reqs[r].sent) = 2 /\ reqs[r].resp.kind = "err"
        /\ reqs[r].result = ResultErr
        /\ reqs[r].route.ProxyID \in DOMAIN bannedTill
        /\ now < bannedTill[reqs[r].route.ProxyID]

\* C14: a call sends at most two requests, the first to the resolved URL and
\* the second, if any, to the original URL after a proxied first one; a send
\* that ends in a transport error ends the call with that error and no further
\* send; a non-2xx response to a call that was not proxied ends the call with
\* that response's status error after the one send.
C14_AtMostOneFallback ==
    \A r \in DOMAIN reqs :
        LET q == reqs[r] IN
        /\ Len(q.sent) <= 2
        /\ Len(q.sent) >= 1 => q.sent[1].url = q.route.URL
        /\ Len(q.sent) = 2 =>
              /\ q.route.Proxied /\ q.sent[1].url # OriginalURL
              /\ q.sent[2].url = OriginalURL
              /\ q.first.kind = "resp" /\ ~Is2xx(q.first.status)
        /\ (q.first.kind = "err") =>
              (q.pc = "done" /\ Len(q.sent) = 1 /\ q.result = ResultErr)
        /\ (Len(q.sent) = 2 /\ q.pc \in {"done"} /\ q.resp.kind = "err") =>
              q.result = ResultErr
        /\ (q.first.kind = "resp" /\ ~Is2xx(q.first.status) /\ ~q.route.Proxied) =>
              /\ q.pc \in {"usage", "done"} /\ Len(q.sent) = 1
              /\ q.pc = "done" =>
                    IF q.mode = "ExecuteStream" /\ ~q.first.readOK
                      THEN q.result = ResultErr
                      ELSE /\ q.result.kind = "statusErr"
                           /\ q.result.code = q.first.status
                           /\ q.result.msg = q.first.body

\* a call routed direct because its proxy is banned gets a 404: it is not retried
C14_Witness ==
    \E r \in DOMAIN reqs :
        /\ reqs[r].pc = "done" /\ ~reqs[r].route.Proxied
        /\ reqs[r].route.ProxyID = "deno-1"
        /\ reqs[r].first.kind = "resp" /\ reqs[r].first.status = 404
        /\ Len(reqs[r].sent) = 1
        /\ reqs[r].result = newCodexStatusErr(404, "upstream status 404", <<>>, now)

\* C15: an entry of the ban state is added or raised only by a call that was
\* routed through that proxy and got a qualifying non-2xx response; a call
\* that went direct changes no entry whatever its response; and an entry is
\* removed only once its expiry has passed.
C15_BanOnlyFromProxiedFailure ==
    /\ [](\A r \in DOMAIN reqs :
             reqs[r].pc = "ban" => (reqs[r].route.Proxied /\ Qualifies(reqs[r])))
    /\ [][ /\ \A id \in DOMAIN bannedTill' :
                 (id \notin DOMAIN bannedTill \/ bannedTill'[id] # bannedTill[id]) =>
                     \E r \in DOMAIN reqs :
                        /\ reqs[r].pc = "ban" /\ reqs'[r].pc = "build2"
                        /\ reqs[r].route.Proxied
                        /\ reqs[r].first.kind = "resp" /\ ~Is2xx(reqs[r].first.status)
                        /\ \/ reqs[r].first.status \in {404, 502, 503, 504, 520, 521, 522, 523, 524}
                           \/ reqs[r].first.body = "upstream status 404"
                        /\ id = TrimSpace(reqs[r].route.ProxyID)
                        /\ bannedTill'[id] = reqs'[r].banAt + reverseProxyBanTTL
                        /\ reqs'[r].banAt <= now
           /\ \A id \in DOMAIN bannedTill :
                 id \notin DOMAIN bannedTill' => now > bannedTill[id]
           /\ \A r \in DOMAIN reqs :
                 (reqs[r].pc = "wait1" /\ reqs'[r].pc # "wait1" /\ ~reqs[r].route.Proxied) =>
                     (reqs'[r].pc \in {"usage", "done"} /\ bannedTill' = bannedTill)
         ]_vars

\* deno-1 was banned at 0; a call routed direct at 1 got a 404 and left the entry as it was
C15_Witness ==
    \E r \in DOMAIN reqs :
        /\ reqs[r].pc = "done" /\ ~reqs[r].route.Proxied
        /\ reqs[r].route.ProxyID = "deno-1"
        /\ reqs[r].first.kind = "resp" /\ reqs[r].first.status = 404
        /\ now = 1
        /\ "deno-1" \in DOMAIN bannedTill /\ bannedTill["deno-1"] = reverseProxyBanTTL

(***************************************************************************)
(* Properties of the ban state                                             *)
(***************************************************************************)
\* C8: an entry stored by a ban at t0 expires at t0 + 5 minutes; a read before
\* that instant (as at t0 + 1s) reports banned and leaves the entry, a read
\* after it (as at t0 + 5m1s) reports unbanned and removes the entry.
C8_BanExpiresLazily ==
    /\ \A id \in DOMAIN bannedTill :
          /\ bannedTill[id] - reverseProxyBanTTL \in Instants
          /\ bannedTill[id] - reverseProxyBanTTL <= now
    /\ lastRead.had =>
          /\ (lastRead.at < lastRead.until) => (lastRead.banned /\ ~lastRead.removed)
          /\ (lastRead.at > lastRead.until) => (~lastRead.banned /\ lastRead.removed)

\* banned at 0, read at 5m1s: unbanned, and the entry is gone
C8_Witness ==
    /\ lastRead.had
    /\ lastRead.until = reverseProxyBanTTL
    /\ lastRead.at = reverseProxyBanTTL + 1
    /\ ~lastRead.banned /\ lastRead.removed
    /\ lastRead.id \notin DOMAIN bannedTill

\* C9 (as claimed): a read reports banned exactly when its time is before the
\* stored expiry; a read at the expiry itself reports unbanned.
C9_BannedExactlyBeforeExpiry ==
    lastRead.had => (lastRead.banned <=> lastRead.at < lastRead.until)

\* C10: a ban never shortens a stored expiry: what a call stores is the later
\* of the stored expiry and its own now + TTL, so the expiry of an entry that
\* stays in the map never decreases, however calls interleave.
C10_BanNeverShortens ==
    [][ /\ \A id \in DOMAIN bannedTill :
              id \in DOMAIN bannedTill' => bannedTill'[id] >= bannedTill[id]
        /\ \A c \in DOMAIN banCalls :
              (banCalls[c].op = "ban" /\ banCalls'[c] = NoCall) =>
                 /\ banCalls[c].id \in DOMAIN bannedTill'
                 /\ bannedTill'[banCalls[c].id] >= banCalls[c].val
                 /\ (banCalls[c].id \in DOMAIN bannedTill =>
                        bannedTill'[banCalls[c].id] >= bannedTill[banCalls[c].id])
                 /\ bannedTill'[banCalls[c].id] \in
                        {banCalls[c].val} \cup
                        {bannedTill[p] : p \in DOMAIN bannedTill \cap {banCalls[c].id}}
      ]_vars

\* a ban call computed its expiry, and a later call has stored a later one
C10_Witness ==
    \E c \in DOMAIN banCalls :
        /\ banCalls[c].op = "ban"
        /\ banCalls[c].id \in DOMAIN bannedTill
        /\ bannedTill[banCalls[c].id] > banCalls[c].val

(***************************************************************************)
(* Properties of the proxy helpers                                         *)
(***************************************************************************)
IsResolve == lastCall.fn = "resolveRoute"

\* C11: when the proxy resolved for a call has a ban that has not run out,
\* resolveReverseProxyRouteForAuth answers the original URL with Proxied =
\* false, and still reports the resolved proxy ID.
C11_BannedRoutesDirect ==
    (IsResolve /\ lastCall.entry # NoBan /\ lastCall.at < lastCall.entry) =>
        /\ lastCall.route.URL = lastCall.url
        /\ ~lastCall.route.Proxied
        /\ lastCall.route.ProxyID # ""
        /\ lastCall.route.ProxyID =
              TrimSpace(RouteProxyID(lastCall.cfg, lastCall.auth, lastCall.provider))

\* deno-1 is enabled and mapped for codex, and banned: the call goes direct
C11_Witness ==
    /\ IsResolve /\ lastCall.entry # NoBan /\ lastCall.at < lastCall.entry
    /\ lastCall.route.ProxyID = "deno-1"
    /\ findReverseProxyByID(lastCall.cfg, "deno-1") # NoProxy
    /\ lastCall.route.URL = OriginalURL /\ ~lastCall.route.Proxied

IsApply == lastCall.fn = "applyHeaders"

\* the non-blank proxy IDs the credential-level mapping gives for the
\* credential's ID, Index or FileName
AuthLevelIDs(c, authID) ==
    IF authID = NilAuth THEN {}
    ELSE {TrimSpace(c.ProxyRoutingAuth[ref]) :
             ref \in AuthRefs(authID) \cap DOMAIN c.ProxyRoutingAuth} \ {""}

\* the provider-level proxy ID of the configuration
ProviderLevelID(c, provider) ==
    IF provider \in DOMAIN c.ProxyRouting THEN c.ProxyRouting[provider] ELSE ""

\* the ban entry found by the call had not run out
CallBanned == lastCall.entry # NoBan /\ lastCall.at <= lastCall.entry

\* C13: when the credential-level mapping gives a non-blank proxy ID for the
\* credential's ID, Index or FileName, that proxy is the one the route names,
\* the URL is rewritten through and the headers are taken from, whatever the
\* provider-level mapping says; the provider-level proxy is the one used when
\* the credential-level mapping gives none; with neither the call goes direct.
C13_AuthRoutingFirst ==
    LET c == lastCall.cfg
        authIDs == AuthLevelIDs(c, lastCall.auth)
        provID == ProviderLevelID(c, lastCall.provider)
    IN
    /\ (IsResolve /\ authIDs # {}) =>
          /\ lastCall.route.ProxyID \in authIDs
          /\ ~CallBanned =>
                lastCall.route.URL =
                    resolveReverseProxyURLWithID(c, lastCall.route.ProxyID, lastCall.provider,
                                                 lastCall.url)
          /\ lastCall.route.Proxied =>
                findReverseProxyByID(c, lastCall.route.ProxyID) # NoProxy
    /\ (IsApply /\ authIDs # {}) =>
          \E id \in authIDs :
             lastCall.after =
                 IF CallBanned \/ findReverseProxyByID(c, id) = NoProxy
                   THEN lastCall.before
                   ELSE InjectHeaders(lastCall.before, findReverseProxyByID(c, id).Headers)
    /\ (IsResolve /\ authIDs = {}) =>
          /\ lastCall.route.ProxyID = TrimSpace(provID)
          /\ (TrimSpace(provID) = "") =>
                (lastCall.route.URL = lastCall.url /\ ~lastCall.route.Proxied)
    /\ (IsApply /\ authIDs = {} /\ TrimSpace(provID) = "") => lastCall.after = lastCall.before

\* auth-b's Index is mapped to deno-2 while its provider is mapped to deno-1:
\* the route is rewritten through deno-2
C13_Witness ==
    /\ IsResolve /\ lastCall.auth = "auth-b" /\ lastCall.provider = "gemini"
    /\ TrimSpace(ProviderLevelID(lastCall.cfg, "gemini")) = "deno-1"
    /\ lastCall.route.ProxyID = "deno-2" /\ lastCall.route.Proxied
    /\ lastCall.route.URL.path = "/gemini/v1beta/models/deno-2.example"

\* C16: applyReverseProxyHeaders leaves every header that has a non-empty
\* value on the request as it is; a header it sets had no value on the
\* request, and carries the trimmed value that a proxy of the configuration
\* gives for that name, both name and value non-blank.
C16_HeadersNeverOverwritten ==
    IsApply =>
        /\ DOMAIN lastCall.before \subseteq DOMAIN lastCall.after
        /\ \A k \in DOMAIN lastCall.before :
              lastCall.before[k] # "" => lastCall.after[k] = lastCall.before[k]
        /\ \A k \in DOMAIN lastCall.after :
              (k \notin DOMAIN lastCall.before \/ lastCall.after[k] # lastCall.before[k]) =>
                  /\ (k \in DOMAIN lastCall.before => lastCall.before[k] = "")
                  /\ \E i \in 1..Len(lastCall.cfg.ReverseProxies) :
                        LET configured == lastCall.cfg.ReverseProxies[i].Headers IN
                        \E ck \in DOMAIN configured :
                           /\ TrimSpace(ck) # "" /\ TrimSpace(configured[ck]) # ""
                           /\ CanonicalKey(TrimSpace(ck)) = k
                           /\ lastCall.after[k] = TrimSpace(configured[ck])

\* the request has its own Authorization and the proxy configures one too:
\* the request's is kept, the proxy's x-worker-token is added
C16_Witness ==
    /\ IsApply
    /\ "Authorization" \in DOMAIN lastCall.before
    /\ lastCall.before["Authorization"] = "Bearer sk-c"
    /\ "X-Worker-Token" \notin DOMAIN lastCall.before
    /\ lastCall.after = [k \in {"Content-Type", "Authorization", "X-Worker-Token"} |->
                            IF k = "Content-Type" THEN "application/json"
                            ELSE IF k = "Authorization" THEN "Bearer sk-c"
                            ELSE "worker-secret"]

\* the proxy the route of the last call names, NoProxy when it is not usable
RouteProxy == findReverseProxyByID(lastCall.cfg, lastCall.route.ProxyID)

\* the bridge URL of the configuration, trimmed
WorkerBase == TrimSpace(lastCall.cfg.ReverseProxyWorkerURL)

\* the bridge is on the host of the proxy itself, letter case aside
SameHostAsBridge ==
    /\ WorkerBase # ""
    /\ LowerHost(Hostname(WorkerBase)) = LowerHost(Hostname(RouteProxy.BaseURL))

\* the path prefix of a provider
ExpectedPrefix ==
    IF lastCall.provider = "codex" THEN "/codex"
    ELSE IF lastCall.provider = "antigravity"
      THEN IF lastCall.url = AntigravityURL THEN "/antigravity-daily" ELSE "/antigravity-sandbox"
    ELSE "/" \o lastCall.provider

\* "?" and the query of the original URL, nothing when it has none
ExpectedQuery == IF lastCall.url.query = "" THEN "" ELSE "?" \o lastCall.url.query

\* C18: when the bridge URL has the host of the resolved proxy's own base URL
\* (letter case aside), no bridge URL is built: the call is rewritten as
\* proxyBase + prefix + path, and the proxy's host is not appended to the path.
C18_NoBridgeToItself ==
    (IsResolve /\ RouteProxy # NoProxy /\ ~CallBanned /\ SameHostAsBridge) =>
        /\ lastCall.route.Proxied
        /\ URLString(lastCall.route.URL) =
              TrimSlash(RouteProxy.BaseURL) \o ExpectedPrefix \o lastCall.url.path
                  \o ExpectedQuery

\* bridge https://bridge.example/ and proxy https://BRIDGE.example
C18_Witness ==
    /\ IsResolve /\ lastCall.route.ProxyID = "deno-4"
    /\ WorkerBase = "https://bridge.example/"
    /\ URLString(lastCall.route.URL) = "https://BRIDGE.example/codex/backend-api/codex/responses"

\* C19: for an enabled proxy that is not banned the rewritten URL is
\* workerBase + prefix + path + "/" + proxyHost when a bridge on another host
\* is configured, and proxyBase + prefix + path otherwise, both bases without
\* their trailing slash; the original query follows after "?" in both forms;
\* the prefix is "/codex" for codex, the entry of the host table for
\* antigravity and "/" + provider for the others.
C19_RewrittenURLForm ==
    (IsResolve /\ RouteProxy # NoProxy /\ ~CallBanned) =>
        /\ lastCall.route.Proxied
        /\ URLString(lastCall.route.URL) =
              IF WorkerBase # "" /\ ~SameHostAsBridge
                THEN TrimSlash(WorkerBase) \o ExpectedPrefix \o lastCall.url.path
                         \o "/" \o Hostname(RouteProxy.BaseURL) \o ExpectedQuery
                ELSE TrimSlash(RouteProxy.BaseURL) \o ExpectedPrefix \o lastCall.url.path
                         \o ExpectedQuery

\* a gemini call through deno-2 behind the bridge, with its query kept
C19_Witness ==
    /\ IsResolve /\ lastCall.route.ProxyID = "deno-2" /\ lastCall.provider = "gemini"
    /\ URLString(lastCall.route.URL) =
          "https://bridge.example/gemini/v1beta/models/deno-2.example?key=k&page=%2F"

(***************************************************************************)
(* Properties of the pure helpers                                          *)
(***************************************************************************)
IsShouldBan == lastCall.fn = "shouldBan"

\* the bodies that hold one of the markers, letter case and outer blanks aside
BodiesWithMarker ==
    {"status 404", "STATUS 404", "upstream status 404", " Request Detail: 500 ",
     "U+8BF7 U+6C42 U+8BE6 U+60C5", "POST /v1/v1/messages failed", "{\"status\":404}"}

\* C17: shouldBanReverseProxyOnError is true for each of the statuses 404, 502,
\* 503, 504, 520..524 whatever the body, true for any status when the body
\* holds a proxy-failure marker, and false in every other case.
C17_ShouldBanTable ==
    IsShouldBan =>
        /\ lastCall.status \in {404, 502, 503, 504, 520, 521, 522, 523, 524} => lastCall.result
        /\ lastCall.body \in BodiesWithMarker => lastCall.result
        /\ ( /\ lastCall.status \notin {404, 502, 503, 504, 520, 521, 522, 523, 524}
             /\ lastCall.body \notin BodiesWithMarker ) => ~lastCall.result

\* status 200 with the marker in the body: true
C17_Witness ==
    /\ IsShouldBan /\ lastCall.status = 200
    /\ lastCall.body = "U+8BF7 U+6C42 U+8BE6 U+60C5"
    /\ lastCall.result

IsRecover == lastCall.fn = "recoverAt"

\* C20: codexQuotaRecoverAt answers ok exactly when the payload has a
\* candidate, and then with the time and the reason tag of one candidate, none
\* of the candidates of all sections being earlier; the payload with windows
\* of 18000 s and 86400 s gives now + 18000 s tagged codex_5h_limit.
C20_EarliestCandidateWins ==
    IsRecover =>
        LET cands == codexQuotaCandidates(lastCall.payload, lastCall.at) IN
        /\ lastCall.result.ok <=> cands # <<>>
        /\ lastCall.result.ok =>
              /\ \E i \in 1..Len(cands) :
                    /\ cands[i].resetAt = lastCall.result.resetAt
                    /\ cands[i].reason = lastCall.result.reason
              /\ \A j \in 1..Len(cands) : cands[j].resetAt >= lastCall.result.resetAt
        /\ lastCall.payload = NearestWindowPayload =>
              lastCall.result = [resetAt |-> lastCall.at + 18000, reason |-> "codex_5h_limit",
                                 ok |-> TRUE]

\* the weekly primary window comes first, the daily secondary window is earlier
C20_Witness ==
    /\ IsRecover /\ lastCall.at = 1
    /\ codexQuotaCandidates(lastCall.payload, 1) =
          << [resetAt |-> 604801, reason |-> "codex_weekly_limit"],
             [resetAt |-> 86401, reason |-> "codex_weekly_limit"],
             [resetAt |-> 3601, reason |-> "codex_code_review_limit"] >>
    /\ lastCall.result = [resetAt |-> 3601, reason |-> "codex_code_review_limit", ok |-> TRUE]

(***************************************************************************)
(* Properties of the reason tags and the candidates of the quota cooldown  *)
(***************************************************************************)
\* the windows of the general section of the call's payload, by name
GeneralWindowKeys == {"primary_window", "secondary_window"}
GeneralWindow(k) == SGet(PGet(lastCall.payload, "rate_limit"), k)

\* the call's payload has no review section and one window, named k, in its
\* general section
LoneWindow(k) ==
    /\ IsRecover
    /\ ~PGet(lastCall.payload, "codeReviewRateLimit").exists
    /\ GeneralWindow(k).exists
    /\ \A o \in GeneralWindowKeys \ {k} : ~GeneralWindow(o).exists

\* the duration a window declares: limit_window_seconds, else
\* reset_after_seconds (in either spelling); -1 when it declares none
DeclaredDuration(w) ==
    LET a == gjsonToFloat(WGet(w, "limit_window_seconds"))
        b == gjsonToFloat(WGet(w, "limitWindowSeconds"))
        c == gjsonToFloat(WGet(w, "reset_after_seconds"))
        d == gjsonToFloat(WGet(w, "resetAfterSeconds"))
    IN IF a.ok THEN a.val ELSE IF b.ok THEN b.val
       ELSE IF c.ok THEN c.val ELSE IF d.ok THEN d.val ELSE -1

\* C21: a limiting window of the general section, primary or secondary, is
\* tagged codex_weekly_limit when its declared duration is at least 24 hours
\* and codex_5h_limit when it is below 24 hours (read off the answer for a
\* payload whose only window it is).
C21_DurationDecidesTag ==
    \A k \in GeneralWindowKeys :
        (LoneWindow(k) /\ lastCall.result.ok /\ DeclaredDuration(GeneralWindow(k)) >= 0) =>
            lastCall.result.reason =
                IF DeclaredDuration(GeneralWindow(k)) >= 24 * 60 * 60
                  THEN "codex_weekly_limit" ELSE "codex_5h_limit"

\* the sections and windows a payload is read for
SectionKeys == {"rate_limit", "rateLimit", "code_review_rate_limit", "codeReviewRateLimit"}
WindowKeys == {"primary_window", "primaryWindow", "secondary_window", "secondaryWindow"}
CallWindow(sk, wk) == SGet(PGet(lastCall.payload, sk), wk)

\* the window's own used percent is at least 100
UsedUp(w) ==
    \E k \in {"used_percent", "usedPercent"} :
        gjsonToFloat(WGet(w, k)).ok /\ gjsonToFloat(WGet(w, k)).val >= 100

\* the window wk of section sk of the call's payload is limiting
Limiting(sk, wk) ==
    LET sec == PGet(lastCall.payload, sk) IN
    /\ CallWindow(sk, wk).exists
    /\ \/ sec.limit_reached \/ sec.limitReached \/ sec.allowed = "false"
       \/ UsedUp(CallWindow(sk, wk))

LimitingWindows == {p \in SectionKeys \X WindowKeys : Limiting(p[1], p[2])}

\* C22: only limiting windows contribute candidates: there are no more
\* candidates than limiting windows, an answer with ok=true carries the
\* recovery time of a limiting window, and a payload without a limiting
\* window is answered ok=false.
C22_OnlyLimitingWindowsCount ==
    IsRecover =>
        /\ Len(codexQuotaCandidates(lastCall.payload, lastCall.at)) <= Cardinality(LimitingWindows)
        /\ lastCall.result.ok =>
              \E p \in LimitingWindows :
                  codexWindowRecoverAt(CallWindow(p[1], p[2]), lastCall.at).at
                      = lastCall.result.resetAt
        /\ LimitingWindows = {} => ~lastCall.result.ok

\* two windows with a recovery time, neither of them limiting
C22_Witness ==
    /\ IsRecover
    /\ CallWindow("rate_limit", "primary_window") = W5h
    /\ CallWindow("rate_limit", "secondary_window") = WDay
    /\ LimitingWindows = {}
    /\ lastCall.result = [resetAt |-> 0, reason |-> "", ok |-> FALSE]

\* a numeric field of a window under either spelling; 0 when it has none
NumberOf(w, snake, camel) ==
    LET a == gjsonToFloat(WGet(w, snake))
        b == gjsonToFloat(WGet(w, camel))
    IN IF a.ok /\ a.val > 0 THEN a.val ELSE IF b.ok /\ b.val > 0 THEN b.val ELSE 0

\* the candidate time the window stands for at the instant of the call: its
\* absolute epoch when it has a positive one, else now + its relative reset;
\* 0 when it declares neither
CandidateTime(w) ==
    IF NumberOf(w, "reset_at", "resetAt") > 0 THEN NumberOf(w, "reset_at", "resetAt")
    ELSE IF NumberOf(w, "reset_after_seconds", "resetAfterSeconds") > 0
      THEN lastCall.at + NumberOf(w, "reset_after_seconds", "resetAfterSeconds")
    ELSE 0

\* C23: an answer with ok=true is strictly after now and is the candidate
\* time of a limiting window (its absolute epoch when present and positive,
\* else now + its relative reset); a lone limiting window is answered with
\* exactly its candidate time when that is strictly after now, and with
\* ok=false otherwise.
C23_CandidateTimeAfterNow ==
    IsRecover =>
        /\ lastCall.result.ok =>
              /\ lastCall.result.resetAt > lastCall.at
              /\ \E p \in LimitingWindows :
                    CandidateTime(CallWindow(p[1], p[2])) = lastCall.result.resetAt
        /\ \A k \in GeneralWindowKeys :
              (LoneWindow(k) /\ Limiting("rate_limit", k)) =>
                  /\ lastCall.result.ok <=> CandidateTime(GeneralWindow(k)) > lastCall.at
                  /\ lastCall.result.ok =>
                        lastCall.result.resetAt = CandidateTime(GeneralWindow(k))

\* the absolute epoch is taken although now + 60 s would come earlier
C23_Witness ==
    /\ LoneWindow("primary_window") /\ GeneralWindow("primary_window") = WBoth
    /\ lastCall.at = 1
    /\ lastCall.result = [resetAt |-> 300, reason |-> "codex_5h_limit", ok |-> TRUE]

(***************************************************************************)
(* Properties of the status error of a non-2xx response                    *)
(***************************************************************************)
\* the call ended with the status error of its last response
EndedWithStatusErr(q) == q.pc = "done" /\ q.result.kind = "statusErr"

\* C24: the status error of a 429 with a Retry-After header of 120 carries
\* 120 s, unless the usage lookup gave a hint that is later than 120 s, which
\* then replaces it; an earlier hint leaves the 120 s in place.
C24_HintReplacesOnlyWhenLater ==
    \A r \in DOMAIN reqs :
        LET q == reqs[r] IN
        (EndedWithStatusErr(q) /\ q.resp.status = 429
            /\ HeaderGet(q.resp.hdrs, "Retry-After") = "120") =>
            q.result.retryAfter = IF q.hint.ok /\ q.hint.retryAfter > 120
                                    THEN q.hint.retryAfter ELSE 120

(***************************************************************************)
(* Properties of parseRetryAfterHeader                                     *)
(***************************************************************************)
IsParseRetryAfter == lastCall.fn = "parseRetryAfter"

\* the header values that are a positive number of seconds, and the number
SecondsValues == ("120" :> 120) @@ (" 120 " :> 120) @@ ("+30" :> 30)
\* the header values in an HTTP-date format, and the instant they name
DateValues ==
    ("Thu, 01 Jan 1970 00:00:01 GMT" :> 1) @@ ("Thu, 01 Jan 1970 00:05:00 GMT" :> 300)
    @@ ("Thursday, 01-Jan-70 00:05:30 GMT" :> 330)
\* blank, zero, negative and unparseable header values
UselessValues == {"", "  ", "0", "-5", "soon", "1.5"}

\* C25: parseRetryAfterHeader answers N seconds for a positive integer N
\* ("120" gives 120 s), the time left until the date for an HTTP-date in the
\* future, and nothing for a missing, blank, zero, negative, unparseable or
\* past value.
C25_RetryAfterParsed ==
    IsParseRetryAfter =>
        LET v == HeaderGet(lastCall.headers, "Retry-After") IN
        /\ "Retry-After" \notin DOMAIN lastCall.headers => lastCall.result = NoRetryAfter
        /\ ("Retry-After" \in DOMAIN lastCall.headers /\ v \in DOMAIN SecondsValues) =>
              lastCall.result = SecondsValues[v]
        /\ ("Retry-After" \in DOMAIN lastCall.headers /\ v \in DOMAIN DateValues) =>
              lastCall.result = IF DateValues[v] > lastCall.at
                                  THEN DateValues[v] - lastCall.at ELSE NoRetryAfter
        /\ ("Retry-After" \in DOMAIN lastCall.headers /\ v \in UselessValues) =>
              lastCall.result = NoRetryAfter
        /\ v = "120" => lastCall.result = 120

\* a date that was in the future is read again after it has passed
C25_Witness ==
    /\ IsParseRetryAfter /\ lastCall.at = 301
    /\ lastCall.headers = ("Retry-After" :> "Thu, 01 Jan 1970 00:05:00 GMT")
    /\ lastCall.result = NoRetryAfter

OnNetwork(q) == q.pc \in {"wait1", "wait2", "usage"}

\* C27: a call that waits for the network holds neither the mutex of the ban
\* state nor the lock of the credential list; the mutex is held only inside a
\* call of one of the two ban-state functions, the read lock only while the
\* credential list is read.
C27_NoLockAcrossNetwork ==
    \A r \in DOMAIN reqs :
        LET q == reqs[r] IN
        /\ OnNetwork(q) => q.locks = {}
        /\ BanMu \in q.locks => q.pc \in {"resolve", "build1", "ban", "build2"}
        /\ AuthsMu \in q.locks => q.pc = "pick"

\* the direct retry is in flight; the call has been through the read lock of
\* the credential list and through the mutex of the ban state
C27_Witness ==
    \E r \in DOMAIN reqs :
        LET q == reqs[r] IN
        /\ q.pc = "wait2" /\ q.perm.restricted /\ q.banAt # NoBan
        /\ q.route.ProxyID \in DOMAIN bannedTill
        /\ q.locks = {}

(***************************************************************************)
(* Properties of the pass-through of upstream errors                       *)
(***************************************************************************)
\* the call ended on a non-2xx first response whose body was read and to
\* which the breaker rules do not apply
PassedThrough(q) ==
    /\ q.pc = "done"
    /\ q.first.kind = "resp" /\ ~Is2xx(q.first.status)
    /\ (q.mode = "ExecuteStream" => q.first.readOK)
    /\ ~Qualifies(q)

\* C28: such a response is passed through: the error carries its status code
\* and its body, one request was sent, and for a status other than 429 the
\* error has no retry-after and no quota reason and no usage lookup was made.
C28_PassThrough ==
    \A r \in DOMAIN reqs :
        LET q == reqs[r] IN
        PassedThrough(q) =>
            /\ Len(q.sent) = 1
            /\ q.result.kind = "statusErr"
            /\ q.result.code = q.first.status
            /\ q.result.msg = q.first.body
            /\ q.first.status # 429 =>
                  /\ q.result.retryAfter = NoRetryAfter
                  /\ q.result.quotaReason = ""
                  /\ q.usage = <<>>

\* a proxied call got a 400 with a Retry-After header: passed through as it is
C28_Witness ==
    \E r \in DOMAIN reqs :
        LET q == reqs[r] IN
        /\ PassedThrough(q) /\ q.route.Proxied /\ hasUsageToken(q.auth)
        /\ q.first.status = 400 /\ HeaderGet(q.first.hdrs, "Retry-After") = "120"
        /\ q.result = statusErr(400, "invalid model", NoRetryAfter, "")
        /\ q.usage = <<>>

(***************************************************************************)
(* Properties of the access resolver's inputs                              *)
(***************************************************************************)
IsAllowedRefs == lastCall.fn = "allowedRefs"

\* the keys that are empty or made of white space only
BlankKeys == {"", " ", "  "}

\* C29: an empty or whitespace-only client key resolves to (nil, false),
\* whatever the permission mapping holds, an entry for that very key included.
C29_BlankKeyUnrestricted ==
    (IsAllowedRefs /\ lastCall.key \in BlankKeys) =>
        /\ lastCall.result.isNil
        /\ ~lastCall.result.restricted
        /\ lastCall.result.allowed = {}

\* the mapping has an entry under the empty key and one under the blank key
C29_Witness ==
    /\ IsAllowedRefs /\ lastCall.key = "  "
    /\ {"", "  "} \subseteq DOMAIN lastCall.cfgAuth
    /\ lastCall.result = NilResult

(***************************************************************************)
(* Properties of the Index used for matching                               *)
(***************************************************************************)
IsAuthIndex == lastCall.fn = "authIndex"

\* a field is blank: empty or white space
Blank(v) == v \in {"", " ", "  "}

\* C30: the Index used for matching is the explicit Index when that is not
\* blank; else the hash of "file:"+FileName when FileName is not blank; else
\* the hash of "api_key:"+api_key when that is not blank; else the hash of
\* "id:"+ID; it is empty only when all four are blank. It depends on the
\* seed of highest priority alone, so credentials that share it get the same
\* Index.
C30_IndexPriority ==
    IsAuthIndex =>
        LET a == lastCall.auth IN
        /\ ~Blank(a.Index) => lastCall.result = "idx-b"
        /\ (Blank(a.Index) /\ ~Blank(a.FileName)) => lastCall.result = "h(file:auth-a.json)"
        /\ (Blank(a.Index) /\ Blank(a.FileName) /\ ~Blank(a.api_key)) =>
              lastCall.result = "h(api_key:sk-c)"
        /\ (Blank(a.Index) /\ Blank(a.FileName) /\ Blank(a.api_key) /\ a.ID = "auth-a") =>
              lastCall.result = "h(id:auth-a)"
        /\ (Blank(a.Index) /\ Blank(a.FileName) /\ Blank(a.api_key) /\ a.ID = "auth-b") =>
              lastCall.result = "h(id:auth-b)"
        /\ lastCall.result = "" <=>
              (Blank(a.Index) /\ Blank(a.FileName) /\ Blank(a.api_key) /\ Blank(a.ID))

\* a credential with a blank Index, a file name, an api_key and an ID
C30_Witness ==
    /\ IsAuthIndex
    /\ lastCall.auth = [ID |-> "auth-b", Index |-> "  ", FileName |-> "auth-a.json",
                        api_key |-> "sk-c"]
    /\ lastCall.result = "h(file:auth-a.json)"

(***************************************************************************)
(* Properties of the configuration's sanitizer                             *)
(***************************************************************************)
IsSanitize == lastCall.fn = "sanitize"

\* what a list of references holds once trimmed, without the blank ones
CleanRefs(refs) == {TrimSpace(refs[i]) : i \in DOMAIN refs} \ {""}

\* C31: sanitizing the api-key-auth mapping against the configured client
\* keys keeps entries only under keys of the configured list; every kept
\* entry holds the trimmed, non-blank references of the given entry, each
\* once; entries under any other key are removed.
C31_SanitizeKeepsKnownKeys ==
    IsSanitize =>
        LET in == lastCall.in
            out == lastCall.result
            known == {lastCall.keys[i] : i \in DOMAIN lastCall.keys}
        IN  /\ DOMAIN out \subseteq known \cap DOMAIN in
            /\ \A k \in DOMAIN in \ known : k \notin DOMAIN out
            /\ \A k \in DOMAIN out :
                  /\ {out[k][i] : i \in DOMAIN out[k]} = CleanRefs(in[k])
                  /\ \A i, j \in DOMAIN out[k] : out[k][i] = out[k][j] => i = j

\* the configuration test: of five entries only the one under the configured
\* key "1" is left
C31_Witness ==
    /\ IsSanitize
    /\ lastCall.keys = <<"1">>
    /\ {"api-keys", "proxy-routing", "unknown-client"} \subseteq DOMAIN lastCall.in
    /\ lastCall.result = ("1" :> <<"codex-a.json">>)

(***************************************************************************)
(* Properties of the prompt-cache session token                            *)
(***************************************************************************)
\* a request of the claude source format that names a user: the ones the
\* cache gives a generated token
HasSession(q) == q.pc = "done" /\ q.from = "claude" /\ q.payload.user_id.exists

\* the request carries the token in the body and in both session headers
CarriesToken(q, id) ==
    /\ q.req.prompt_cache_key = Str(id)
    /\ DOMAIN q.req.hdrs = {"Conversation_id", "Session_id"}
    /\ q.req.hdrs["Conversation_id"] = id
    /\ q.req.hdrs["Session_id"] = id

\* a cacheHelper call returns: issued is the request built before it, issued'
\* the one it built
Returns == issued' # issued

\* the same model and user within the token's hour: the same token everywhere
SameSessionSameToken ==
    (/\ issued.model = issued'.model
     /\ issued.payload.user_id = issued'.payload.user_id
     /\ issued'.at < issued.cache.Expire)
        => CarriesToken(issued', issued.cache.ID)

\* another model or another user: another token
OtherSessionOtherToken ==
    (issued.model # issued'.model \/ issued.payload.user_id # issued'.payload.user_id)
        => issued'.cache.ID # issued.cache.ID

\* C32: of two claude-format requests made one after the other, the second
\* within the hour of the first one's token, those with the same model and
\* metadata.user_id carry the same token as prompt_cache_key,
\* Conversation_id and Session_id, and those whose model or user_id differ
\* carry different tokens.
C32_TokenKeyedByModelAndSession ==
    [][(Returns /\ HasSession(issued) /\ HasSession(issued'))
          => (SameSessionSameToken /\ OtherSessionOtherToken)]_vars

\* the call holds a generated token that has not expired
HoldsLiveToken(q) ==
    /\ q.pc \in {"store", "build", "done"}
    /\ q.from = "claude" /\ q.payload.user_id.exists
    /\ ~(q.cache.Expire < now)

\* C40: requests of the claude source format with the same model and
\* metadata.user_id whose cacheHelper calls interleave carry one and the same
\* prompt_cache_key: at no time do two calls for the same cache key hold two
\* different live tokens.
C40_OneLiveTokenPerKey ==
    \A c, d \in CacheCallers :
        (/\ HoldsLiveToken(cacheCalls[c]) /\ HoldsLiveToken(cacheCalls[d])
         /\ cacheCalls[c].model = cacheCalls[d].model
         /\ cacheCalls[c].payload.user_id = cacheCalls[d].payload.user_id)
            => cacheCalls[c].cache.ID = cacheCalls[d].cache.ID

(***************************************************************************)
(* Properties of the proxy's headers on the requests sent                  *)
(***************************************************************************)
\* the reverse proxy the call's configuration routes its credential to
ProxyOfCall(q) == findReverseProxyByID(execCfg(q), RouteProxyID(execCfg(q), q.auth, "codex"))

\* the headers that reverse proxy adds to the request of the call
ProxyHeaderKeys(q) ==
    IF ProxyOfCall(q) = NoProxy THEN {}
    ELSE DOMAIN InjectHeaders(applyCodexHeaders(q.auth), ProxyOfCall(q).Headers)
             \ DOMAIN applyCodexHeaders(q.auth)

\* a request to the rewritten URL has the proxy's headers, a request to the
\* upstream URL has none of them
HeadersFollowURL(q, s) ==
    IF s.url = OriginalURL
    THEN ProxyHeaderKeys(q) \cap DOMAIN s.hdrs = {}
    ELSE ProxyHeaderKeys(q) \subseteq DOMAIN s.hdrs

\* C33: route resolution and header injection of one request agree on the ban
\* state whatever happens between them: the request a call builds from its
\* resolved route carries the proxy's configured headers when it goes to the
\* proxied URL and none of them when it goes to the upstream URL.
C33_RouteAndHeadersAgree ==
    \A r \in DOMAIN reqs :
        Len(reqs[r].sent) >= 1 => HeadersFollowURL(reqs[r], reqs[r].sent[1])

\* the request's headers hold the value the proxy's configuration gives for
\* one of its headers
CarriesHeaderOf(hdrs, proxy) ==
    \E k \in DOMAIN proxy.Headers :
        /\ TrimSpace(k) # "" /\ TrimSpace(proxy.Headers[k]) # ""
        /\ HeaderGet(hdrs, CanonicalKey(TrimSpace(k))) = TrimSpace(proxy.Headers[k])

\* the URL is the upstream's, not one rewritten through a proxy
Unrewritten(url) == url \in {OriginalURL, CompactURL}

\* the request, going to the upstream itself, has none of the headers of the
\* proxy its call is routed to
NoProxyHeaders(q, hdrs) ==
    ProxyOfCall(q) # NoProxy => ~CarriesHeaderOf(hdrs, ProxyOfCall(q))

\* C34: with one call at a time and the clock still, every request the Codex
\* executor sends or prepares for the un-rewritten upstream URL (the first
\* request of a call routed direct, the direct retry after a breaker trip, the
\* request of executeCompact, the request of PrepareRequest and HttpRequest)
\* carries none of the reverse proxy's configured headers.
C34_ProxyHeadersOnlyOnProxiedRequests ==
    \A r \in DOMAIN reqs :
        /\ \A i \in DOMAIN reqs[r].sent :
              Unrewritten(reqs[r].sent[i].url) => NoProxyHeaders(reqs[r], reqs[r].sent[i].hdrs)
        /\ (reqs[r].mode = "PrepareRequest" /\ reqs[r].pc = "done")
              => NoProxyHeaders(reqs[r], reqs[r].hdrs)

(***************************************************************************)
(* Properties of the credential-level routing entry                        *)
(***************************************************************************)
\* the proxy the route names cannot be used: its ban has not run out, or it
\* is no enabled proxy of the list
RouteUnusable ==
    \/ lastCall.entry # NoBan /\ lastCall.at < lastCall.entry
    \/ findReverseProxyByID(lastCall.cfg, lastCall.route.ProxyID) = NoProxy

\* the provider-level mapping names an enabled proxy of the list that is not
\* banned
ProviderUsable ==
    LET id == TrimSpace(ProviderLevelID(lastCall.cfg, lastCall.provider)) IN
    /\ findReverseProxyByID(lastCall.cfg, id) # NoProxy
    /\ id \notin DOMAIN bannedTill

\* C35: when the credential-level mapping names a proxy ID for the
\* credential, the route names that proxy even if it is banned, disabled or
\* not in the list; the call then goes direct (the original URL, Proxied =
\* false) and the provider-level proxy is not used in its place.
C35_AuthEntryShadowsProvider ==
    (IsResolve /\ AuthLevelIDs(lastCall.cfg, lastCall.auth) # {}) =>
        /\ lastCall.route.ProxyID \in AuthLevelIDs(lastCall.cfg, lastCall.auth)
        /\ RouteUnusable =>
              /\ lastCall.route.URL = lastCall.url
              /\ ~lastCall.route.Proxied

\* auth-c is mapped to the disabled deno-3 while codex is mapped to the
\* usable deno-1: the call goes direct
C35_Witness ==
    /\ IsResolve /\ lastCall.auth = "auth-c" /\ lastCall.provider = "codex"
    /\ lastCall.cfg = ShadowConfig
    /\ lastCall.route.ProxyID = "deno-3"
    /\ ProviderUsable
    /\ lastCall.route.URL = OriginalURL /\ ~lastCall.route.Proxied

(***************************************************************************)
(* Properties of a key listed with blank references                        *)
(***************************************************************************)
\* the key of the last call is listed with references, every one of them
\* empty or white space
OnlyBlankRefs ==
    /\ OpKey # "" /\ KeyListed
    /\ apiKeyAuth[OpKey] # <<>>
    /\ OpRefs = {}

\* C36: for a client key listed in the mapping with references that are all
\* empty or white space, AllowedAuthIDsForClientKey answers the empty set
\* with restricted = true, never (nil, false), whatever credentials are
\* registered.
C36_BlankRefsDenyAll ==
    (lastOp.op = "Resolve" /\ OnlyBlankRefs) =>
        /\ lastOp.allowed = {}
        /\ ~lastOp.isNil
        /\ lastOp.restricted

\* two blank references, and credentials registered
C36_Witness ==
    /\ lastOp.op = "Resolve" /\ OnlyBlankRefs
    /\ Len(apiKeyAuth[OpKey]) = 2
    /\ Registered # {}
    /\ lastOp.restricted /\ lastOp.allowed = {}

IsAuthenticate == "fn" \in DOMAIN lastCall /\ lastCall.fn = "authenticate"

\* the keys a request presents, in the order they are tried, and those of them
\* the provider is configured with
Presented(r) ==
    LET cands == authCandidates(r)
    IN {i \in DOMAIN cands : cands[i].value # ""}
ConfiguredPresented(p, r) ==
    {i \in Presented(r) : authCandidates(r)[i].value \in p.keys}
HasExpiry(p, k) == k \in DOMAIN p.expiresAt
Accepted(k) == lastCall.result.err = "" /\ lastCall.result.Principal = k
Rejected == lastCall.result.err = "ErrExpiredCredential"

\* C37 as stated: every presented key that is configured is refused with
\* ErrExpiredCredential when it has an expiry instant at or before the clock,
\* and is accepted as the Principal when its expiry is later or it has none.
C37_ExpiredKeyNeverAccepted ==
    IsAuthenticate =>
        \A i \in ConfiguredPresented(lastCall.provider, lastCall.req) :
            LET k == authCandidates(lastCall.req)[i].value
                p == lastCall.provider
            IN IF HasExpiry(p, k) /\ p.expiresAt[k] <= lastCall.at
               THEN Rejected
               ELSE Accepted(k)

\* C37 amended: the first presented key that is configured decides; it is
\* refused with ErrExpiredCredential exactly when it has an expiry instant that is
\* not the zero instant and is at or before the clock (the clock's own instant
\* included), and is accepted as the Principal otherwise.
C37_FirstKeyDecidesZeroNeverExpires ==
    IsAuthenticate =>
        LET p == lastCall.provider
            hits == ConfiguredPresented(p, lastCall.req)
        IN hits # {} =>
            LET k == authCandidates(lastCall.req)[CHOOSE i \in hits : \A j \in hits : i <= j].value
            IN IF HasExpiry(p, k) /\ p.expiresAt[k] # ZeroTime /\ p.expiresAt[k] <= lastCall.at
               THEN Rejected
               ELSE Accepted(k)

\* a key presented at the very instant it expires has been refused
C37_Witness ==
    /\ IsAuthenticate
    /\ \E i \in ConfiguredPresented(lastCall.provider, lastCall.req) :
          LET k == authCandidates(lastCall.req)[i].value
          IN /\ HasExpiry(lastCall.provider, k)
             /\ lastCall.provider.expiresAt[k] = lastCall.at
             /\ Rejected

StreamStarted == stream.pc # "none"
ErrChunks == {i \in DOMAIN stream.got : stream.got[i].Err}

\* a closed channel: the body has ended or its read failed, the body is closed,
\* every chunk made was received in order, and a scanner error was received
\* as the one chunk with Err set, after all the others
ClosedInOrder ==
    stream.closed =>
        /\ stream.bodyClosed
        /\ stream.pending = 0
        /\ stream.scanErr \/ stream.body = <<>>
        /\ \A i \in 1..stream.made : stream.got[i] = StreamChunk(i, FALSE)
        /\ ErrChunks = IF stream.scanErr THEN {Len(stream.got)} ELSE {}
        /\ Len(stream.got) = stream.made + (IF stream.scanErr THEN 1 ELSE 0)

\* C38: a stream whose consumer keeps receiving is eventually closed, and a
\* closed stream has its body ended and closed and the scanner's error, if
\* any, delivered as the one final chunk with Err set.
C38_ConsumedStreamTerminates ==
    /\ []ClosedInOrder
    /\ StreamStarted ~> (stream.closed \/ stream.consumer = "stopped")

\* a consumed stream has been closed after its chunks and its scanner error
C38_Witness ==
    /\ stream.closed
    /\ stream.consumer = "receiving"
    /\ ~stream.cancelled
    /\ stream.scanErr
    /\ Len(stream.got) = 3

\* the goroutine is at a channel send that nobody receives
BlockedOnSend == stream.pc \in {"send", "senderr"} /\ stream.consumer = "stopped"

\* C39: once ctx is cancelled the goroutine is never left blocked on a send
\* to a consumer that has stopped receiving, so that it goes on to close the
\* channel.
C39_CancelledStreamNeverBlocked == stream.cancelled => ~BlockedOnSend

====
